---- MODULE Spec2Model ----
(***************************************************************************)
(* A model of the challenge-resolution engine of the repository:          *)
(*                                                                         *)
(*   - the Turnstile frame solver (TurnstileSolver of the extension's     *)
(*     content script): check / getFrameStatus / solve;                   *)
(*   - the page orchestrator of extension/content.js: State, solveLoop,   *)
(*     solveRecaptcha, solveTurnstile;                                     *)
(*   - the transcription pipeline of extension/background.js:             *)
(*     MemoryCache, CacheService, processAudioPipeline;                   *)
(*   - the bridge between the two, sendMessageWithTimeout;                *)
(*   - on their own: TranslationService.normalize, WitClient.parseResponse, *)
(*     MemoryCache, TurnstileSolver.findTarget, clickTarget and         *)
(*     executeBlindClick, and detect of the Node solver                   *)
(*     (src/TurnstileSolver.js).                                          *)
(*                                                                         *)
(* They run in different execution contexts (the challenge frame, the     *)
(* page, the service worker); each has a specification of its own         *)
(* over the variables of its context.                                      *)
(***************************************************************************)
EXTENDS Integers, Sequences, FiniteSets, TLC

VARIABLES
    script,                 \* the part of the code this execution runs: "frame", "page", "worker", "bridge",
                            \* "translator", "parser", "cache", "locator", "node" or "strike"
    \* ---- TurnstileSolver (one instance per frame) ----
    attempts,               \* this.attempts
    solved,                 \* this.solved
    active,                 \* this.active
    stabilizationAttempts,  \* this.stabilizationAttempts
    failureLogged,          \* this.failureLogged (undefined reads as FALSE)
    win,                    \* what the frame shows: innerWidth, innerHeight, href, body text, content
    inflight,               \* solve() calls suspended in clickTarget / executeBlindClick
    poll,                   \* what the last step's check() did (NoPoll after any other step)
    run,                    \* polls so far, while every one saw a small empty frame; else -1
    \* ---- State of extension/content.js (one per page context) ----
    isSolving,              \* State.isSolving
    hasNotified,            \* State.hasNotified
    solveAttempts,          \* State.solveAttempts
    solveAge,               \* Date.now() - State.lastSolveTime, capped at debounceDelay
    dom,                    \* what the document of this context shows
    flows,                  \* suspended solveRecaptcha / solveTurnstile calls: position -> how many
    notifiesInPeriod,       \* notify requests sent since the success indicator appeared (capped at 2)
    limitReached,           \* solveAttempts has been maxSolveAttempts at some time
    event,                  \* what the last step met: the reply to transcribe, an error and its catch, a click
    \* ---- extension/background.js (the service worker) ----
    clock,                  \* Date.now(), in ms since the model's start
    memoryCache,            \* memoryCache.cache: the Map's entries in insertion order
    storage,                \* chrome.storage.local: hash -> entry under the key cache_<hash>
    jobs,                   \* sender -> its processAudioPipeline run in progress, or its last one ended
    received,               \* how many transcribe messages have arrived
    witAiToken,             \* chrome.storage.sync: the speech-API credential ("" when not stored)
    served,                 \* bytes -> the entry written by the last run that got them transcribed
    \* ---- sendMessageWithTimeout of extension/content.js (one call at a time) ----
    request,                \* the promise of the call, its timer, and the time since the call
    \* ---- TranslationService.normalize of extension/background.js ----
    translation,            \* the last call: the text given and the text returned
    \* ---- WitClient.parseResponse of extension/background.js ----
    parsing,                \* the last call: the chunks given and the value returned
    \* ---- a MemoryCache of extension/background.js ----
    lru,                    \* this.maxSize, this.cache (entries in insertion order), and the last call
    \* ---- TurnstileSolver.findTarget ----
    search,                 \* the last call: the document searched and what was returned
    \* ---- TurnstileSolver.detect of src/TurnstileSolver.js (Node) ----
    detection,              \* the last call: what the page showed and what was returned
    \* ---- TurnstileSolver.solve: clickTarget and executeBlindClick ----
    strike                  \* the last call: the target, what was done to it, how check() ended

tsVars == <<attempts, solved, active, stabilizationAttempts, failureLogged, win, inflight, poll, run>>

pageVars == <<isSolving, hasNotified, solveAttempts, solveAge, dom, flows, notifiesInPeriod, limitReached, event>>

workerVars == <<clock, memoryCache, storage, jobs, served, received, witAiToken>>

bridgeVars == <<request>>

translatorVars == <<translation>>

parserVars == <<parsing>>

cacheVars == <<lru>>

locatorVars == <<search>>

nodeVars == <<detection>>

strikeVars == <<strike>>

vars == <<script, tsVars, pageVars, workerVars, bridgeVars, translatorVars,
          parserVars, cacheVars, locatorVars, nodeVars, strikeVars>>

\* An execution is one script in one context: a step of a script leaves
\* the variables of the other scripts alone.
Apart(s) ==
    /\ script = s /\ UNCHANGED script
    /\ IF s = "frame" THEN TRUE ELSE UNCHANGED tsVars
    /\ IF s = "page" THEN TRUE ELSE UNCHANGED pageVars
    /\ IF s = "worker" THEN TRUE ELSE UNCHANGED workerVars
    /\ IF s = "bridge" THEN TRUE ELSE UNCHANGED bridgeVars
    /\ IF s = "translator" THEN TRUE ELSE UNCHANGED translatorVars
    /\ IF s = "parser" THEN TRUE ELSE UNCHANGED parserVars
    /\ IF s = "cache" THEN TRUE ELSE UNCHANGED cacheVars
    /\ IF s = "locator" THEN TRUE ELSE UNCHANGED locatorVars
    /\ IF s = "node" THEN TRUE ELSE UNCHANGED nodeVars
    /\ IF s = "strike" THEN TRUE ELSE UNCHANGED strikeVars

FrameOnly == Apart("frame")
PageOnly == Apart("page")
WorkerOnly == Apart("worker")
BridgeOnly == Apart("bridge")
TranslatorOnly == Apart("translator")
ParserOnly == Apart("parser")
CacheOnly == Apart("cache")
LocatorOnly == Apart("locator")
NodeOnly == Apart("node")
StrikeOnly == Apart("strike")

(***************************************************************************)
(* Strings the code searches are sequences of characters, so that         *)
(* String.includes and the regular expression are computed, not assumed.  *)
(***************************************************************************)
Includes(hay, needle) ==
    \E i \in 0..(Len(hay) - Len(needle)) : SubSeq(hay, i + 1, i + Len(needle)) = needle

ToLowerChar(c) ==
    CASE c = "A" -> "a" [] c = "B" -> "b" [] c = "C" -> "c" [] c = "D" -> "d"
      [] c = "E" -> "e" [] c = "F" -> "f" [] c = "G" -> "g" [] c = "H" -> "h"
      [] c = "I" -> "i" [] c = "J" -> "j" [] c = "K" -> "k" [] c = "L" -> "l"
      [] c = "M" -> "m" [] c = "N" -> "n" [] c = "O" -> "o" [] c = "P" -> "p"
      [] c = "Q" -> "q" [] c = "R" -> "r" [] c = "S" -> "s" [] c = "T" -> "t"
      [] c = "U" -> "u" [] c = "V" -> "v" [] c = "W" -> "w" [] c = "X" -> "x"
      [] c = "Y" -> "y" [] c = "Z" -> "z"
      [] c = "É" -> "é" [] c = "Ü" -> "ü"
      [] OTHER -> c

ToLower(s) == [i \in 1..Len(s) |-> ToLowerChar(s[i])]

\* The needles of getFrameStatus.
SlashFailure == <<"/", "f", "a", "i", "l", "u", "r", "e">>
SlashError == <<"/", "e", "r", "r", "o", "r">>
ErrorEq == <<"e", "r", "r", "o", "r", "=">>
FailureRetry == <<"f", "a", "i", "l", "u", "r", "e", "_", "r", "e", "t", "r", "y">>
PatError == <<"E", "r", "r", "o", "r">>
PatBadRequest == <<"4", "0", "0", " ", "B", "a", "d", " ", "R", "e", "q", "u", "e", "s", "t">>
PatCode == <<"4", "0", "0", "0", "7", "0">>

\* bodyText.match(/Error|400 Bad Request|400070/i)
MatchesErrorText(text) ==
    \/ Includes(ToLower(text), ToLower(PatError))
    \/ Includes(ToLower(text), ToLower(PatBadRequest))
    \/ Includes(ToLower(text), ToLower(PatCode))

(***************************************************************************)
(* The frames the model explores.  A location is the part of the href     *)
(* after the host (the host, challenges.cloudflare.com, holds none of the *)
(* needles).                                                               *)
(***************************************************************************)
HrefWidget == <<"/", "i", "f", "/", "o", "v", "2">>
HrefFailure == <<"/", "i", "f", "/", "f", "a", "i", "l", "u", "r", "e">>
HrefErrorQuery == <<"/", "i", "f", "?", "e", "r", "r", "o", "r", "=", "1">>
HrefFailureRetry == <<"/", "i", "f", "/", "f", "a", "i", "l", "u", "r", "e", "_", "r", "e", "t", "r", "y">>
Hrefs == {HrefWidget, HrefFailure, HrefErrorQuery, HrefFailureRetry}

TextVerify == <<"V", "e", "r", "i", "f", "y">>
TextError == <<"a", "n", " ", "e", "r", "r", "o", "r">>
TextCode == <<"4", "0", "0", "0", "7", "0">>
Texts == {TextVerify, TextError, TextCode}

Widths == {0, 49, 50, 150, 300}
Heights == {0, 50, 65}

Windows ==
    [width : Widths, height : Heights, href : Hrefs, bodyText : Texts, hasContent : BOOLEAN]

\* The two searches of getFrameStatus, tabulated over the frames explored.
HrefSignalsFailure ==
    [u \in Hrefs |->
        /\ (Includes(u, SlashFailure) \/ Includes(u, SlashError) \/ Includes(u, ErrorEq))
        /\ ~Includes(u, FailureRetry)]
TextSignalsError == [t \in Texts |-> MatchesErrorText(t)]

NoPoll == [status |-> "NONE", stabBefore |-> 0, runBefore |-> 0, solveCalled |-> FALSE, target |-> "none"]

\* ---- bounds of the exploration ----
\* solve() calls that may be suspended at once
MaxInFlight == 1
\* solve attempts explored by the specification of the status classifier
MaxProbeAttempts == 1

\* ---- TurnstileSolver constructor ----
maxAttempts == 30
maxStabilizationAttempts == 20

InitTurnstile ==
    /\ attempts = 0
    /\ solved = FALSE
    /\ active = FALSE
    /\ stabilizationAttempts = 0
    /\ failureLogged = FALSE
    /\ win \in Windows
    /\ inflight = [click |-> 0, blind |-> 0]
    /\ poll = NoPoll
    /\ run = 0

(***************************************************************************)
(* getFrameStatus: the classification and the counter it leaves, from the *)
(* frame w and the counter stab.                                           *)
(***************************************************************************)
isStandardWidget(w) == w.width > 150 /\ w.height >= 50

\* (a classifier that forgets the retry marker)
UrlFatalIgnoringRetry(w) ==
    /\ ~isStandardWidget(w)
    /\ (Includes(w.href, SlashFailure) \/ Includes(w.href, SlashError) \/ Includes(w.href, ErrorEq))

\* (a classifier that forgets the error= query)
UrlFatalWithoutQuery(w) ==
    /\ ~isStandardWidget(w)
    /\ (Includes(w.href, SlashFailure) \/ Includes(w.href, SlashError))
    /\ ~Includes(w.href, FailureRetry)

UrlFatal(w) == ~isStandardWidget(w) /\ HrefSignalsFailure[w.href]

\* (a classifier that reads the body text of a standard widget too)
TextFatalAnyGeometry(w) == TextSignalsError[w.bodyText]

TextFatal(w) == ~isStandardWidget(w) /\ TextSignalsError[w.bodyText]

\* (a classifier that takes a widget up to 150 wide for a small one)
isSmallUpToStandard(w) == w.width <= 150 \/ w.height < 50

isSmall(w) == w.width < 50 \/ w.height < 50

\* (a selector that matches nothing)
hasContentNever(w) == FALSE

\* document.querySelector('.ctp-checkbox-container, input[type="checkbox"], .cb-lb, #challenge-stage')
hasContent(w) == w.hasContent

\* (a counter allowed one poll more)
canStabilizeOneMore(stab) == stab <= maxStabilizationAttempts

canStabilize(stab) == stab < maxStabilizationAttempts

getFrameStatus(w, stab) ==
    IF UrlFatal(w) THEN [status |-> "FATAL", stab |-> stab]
    ELSE IF TextFatal(w) THEN [status |-> "FATAL", stab |-> stab]
    ELSE IF isSmall(w)
         THEN IF hasContent(w) THEN [status |-> "READY", stab |-> stab]
              ELSE IF canStabilize(stab) THEN [status |-> "WAITING", stab |-> stab + 1]
              ELSE [status |-> "READY", stab |-> stab]
    ELSE [status |-> "READY", stab |-> 0]

(***************************************************************************)
(* The frame itself: the widget resizes, navigates and renders on its own *)
(* between polls.                                                          *)
(***************************************************************************)
FrameChanges ==
    /\ FrameOnly
    /\ \/ \E w \in Widths : win' = [win EXCEPT !.width = w]
       \/ \E h \in Heights : win' = [win EXCEPT !.height = h]
       \/ \E u \in Hrefs : win' = [win EXCEPT !.href = u]
       \/ \E t \in Texts : win' = [win EXCEPT !.bodyText = t]
       \/ win' = [win EXCEPT !.hasContent = ~win.hasContent]
    /\ win' # win
    /\ poll' = NoPoll
    /\ UNCHANGED <<attempts, solved, active, stabilizationAttempts, failureLogged, inflight, run>>

Hostnames == {"challenges.cloudflare.com", "example.com"}
isCloudflareFrame(hostname) == hostname = "challenges.cloudflare.com"

ReadyStates == {"loading", "interactive", "complete"}
isLoaded(readyState) == readyState = "complete" \/ readyState = "interactive"

\* What run becomes at a poll that sees frame w.
SmallEmpty(w) == isSmall(w) /\ ~w.hasContent /\ ~UrlFatal(w) /\ ~TextFatal(w)
RunCap == maxStabilizationAttempts + 2
NextRun(w) ==
    IF run >= 0 /\ SmallEmpty(w) THEN (IF run < RunCap THEN run + 1 ELSE RunCap) ELSE -1

canAttempt == ~solved /\ attempts < maxAttempts

\* (a check that returns early on FATAL only)
returnsEarlyOnFatal(status) == status = "FATAL"

\* The two early returns of check() after the status check.
returnsEarly(status) == status = "FATAL" \/ status = "WAITING"

(***************************************************************************)
(* solve(), up to its first await.  tokenPresent is isSolved(), found is  *)
(* whether findTarget() returned an element.                               *)
(***************************************************************************)
\* what solve() got from findTarget(): "none" when it did not ask
Target(tokenPresent, found) ==
    IF tokenPresent THEN "none" ELSE IF found THEN "element" ELSE "null"

solve(tokenPresent, found) ==
    IF tokenPresent
    THEN /\ solved' = TRUE                      \* markSolved()
         /\ UNCHANGED <<attempts, inflight>>
    ELSE /\ attempts' = attempts + 1
         /\ inflight.click + inflight.blind < MaxInFlight
         /\ inflight' = IF found THEN [inflight EXCEPT !.click = @ + 1]
                                  ELSE [inflight EXCEPT !.blind = @ + 1]
         /\ UNCHANGED solved

\* (a solve() that marks the widget solved after either strategy)
solvedAfterAny(strategy, was) == TRUE

\* this.solved when the awaited strategy has returned: markSolved() follows
\* clickTarget only
solvedAfter(strategy, was) == IF strategy = "click" THEN TRUE ELSE was

(***************************************************************************)
(* check(): one firing of setInterval(() => turnstileSolver.check(), 2000) *)
(* up to its first await.                                                   *)
(***************************************************************************)
check ==
    /\ FrameOnly
    /\ \E hostname \in Hostnames, readyState \in ReadyStates :
            IF ~isCloudflareFrame(hostname) \/ ~isLoaded(readyState)
            THEN /\ poll' = NoPoll
                 /\ UNCHANGED <<attempts, solved, active, stabilizationAttempts, failureLogged, win, inflight, run>>
            ELSE LET r == getFrameStatus(win, stabilizationAttempts) IN
                 /\ stabilizationAttempts' = r.stab
                 /\ run' = NextRun(win)
                 /\ UNCHANGED win
                 /\ IF returnsEarly(r.status)
                    THEN /\ failureLogged' = (IF r.status = "FATAL" THEN TRUE ELSE failureLogged)
                         /\ poll' = [status |-> r.status, stabBefore |-> stabilizationAttempts, runBefore |-> run,
                                     solveCalled |-> FALSE, target |-> "none"]
                         /\ UNCHANGED <<attempts, solved, active, inflight>>
                    ELSE /\ failureLogged' = FALSE
                         /\ active' = TRUE                     \* init()
                         /\ IF canAttempt
                            THEN \E tokenPresent, found \in BOOLEAN :
                                    /\ solve(tokenPresent, found)
                                    /\ poll' = [status |-> r.status, stabBefore |-> stabilizationAttempts,
                                                runBefore |-> run, solveCalled |-> TRUE,
                                                target |-> Target(tokenPresent, found)]
                            ELSE /\ poll' = [status |-> r.status, stabBefore |-> stabilizationAttempts,
                                             runBefore |-> run, solveCalled |-> FALSE, target |-> "none"]
                                 /\ UNCHANGED <<attempts, solved, inflight>>

\* clickTarget returns and solve() goes on to markSolved().
clickTargetReturns ==
    /\ FrameOnly
    /\ inflight.click > 0
    /\ inflight' = [inflight EXCEPT !.click = @ - 1]
    /\ solved' = solvedAfter("click", solved)
    /\ poll' = NoPoll
    /\ UNCHANGED <<attempts, active, stabilizationAttempts, failureLogged, win, run>>

\* executeBlindClick returns and solve() ends.
executeBlindClickReturns ==
    /\ FrameOnly
    /\ inflight.blind > 0
    /\ inflight' = [inflight EXCEPT !.blind = @ - 1]
    /\ solved' = solvedAfter("blind", solved)
    /\ poll' = NoPoll
    /\ UNCHANGED <<attempts, active, stabilizationAttempts, failureLogged, win, run>>

(***************************************************************************)
(* extension/background.js: the transcription pipeline of the service    *)
(* worker.  Transcripts are sequences of characters.                       *)
(***************************************************************************)
\* ---- CONFIG ----
cacheExpiration == 1000 * 60 * 60 * 24
minAudioSize == 100
maxMemoryCacheSize == 50
maxRetries == 3
retryDelay == 1000

\* ---- TranslationService ----
NumberWords ==
    {
     \* English
     <<<<"z", "e", "r", "o">>, <<"0">>>>, <<<<"o", "n", "e">>, <<"1">>>>,
     <<<<"t", "w", "o">>, <<"2">>>>, <<<<"t", "h", "r", "e", "e">>, <<"3">>>>,
     <<<<"f", "o", "u", "r">>, <<"4">>>>, <<<<"f", "i", "v", "e">>, <<"5">>>>,
     <<<<"s", "i", "x">>, <<"6">>>>, <<<<"s", "e", "v", "e", "n">>, <<"7">>>>,
     <<<<"e", "i", "g", "h", "t">>, <<"8">>>>, <<<<"n", "i", "n", "e">>, <<"9">>>>,
     <<<<"t", "e", "n">>, <<"1", "0">>>>,
     \* French
     <<<<"z", "é", "r", "o">>, <<"0">>>>, <<<<"u", "n">>, <<"1">>>>,
     <<<<"d", "e", "u", "x">>, <<"2">>>>, <<<<"t", "r", "o", "i", "s">>, <<"3">>>>,
     <<<<"q", "u", "a", "t", "r", "e">>, <<"4">>>>, <<<<"c", "i", "n", "q">>, <<"5">>>>,
     <<<<"s", "i", "x">>, <<"6">>>>, <<<<"s", "e", "p", "t">>, <<"7">>>>,
     <<<<"h", "u", "i", "t">>, <<"8">>>>, <<<<"n", "e", "u", "f">>, <<"9">>>>,
     <<<<"d", "i", "x">>, <<"1", "0">>>>,
     \* German
     <<<<"n", "u", "l", "l">>, <<"0">>>>, <<<<"e", "i", "n", "s">>, <<"1">>>>,
     <<<<"z", "w", "e", "i">>, <<"2">>>>, <<<<"d", "r", "e", "i">>, <<"3">>>>,
     <<<<"v", "i", "e", "r">>, <<"4">>>>, <<<<"f", "ü", "n", "f">>, <<"5">>>>,
     <<<<"s", "e", "c", "h", "s">>, <<"6">>>>, <<<<"s", "i", "e", "b", "e", "n">>, <<"7">>>>,
     <<<<"a", "c", "h", "t">>, <<"8">>>>, <<<<"n", "e", "u", "n">>, <<"9">>>>,
     <<<<"z", "e", "h", "n">>, <<"1", "0">>>>,
     \* Spanish
     <<<<"c", "e", "r", "o">>, <<"0">>>>, <<<<"u", "n", "o">>, <<"1">>>>,
     <<<<"d", "o", "s">>, <<"2">>>>, <<<<"t", "r", "e", "s">>, <<"3">>>>,
     <<<<"c", "u", "a", "t", "r", "o">>, <<"4">>>>, <<<<"c", "i", "n", "c", "o">>, <<"5">>>>,
     <<<<"s", "e", "i", "s">>, <<"6">>>>, <<<<"s", "i", "e", "t", "e">>, <<"7">>>>,
     <<<<"o", "c", "h", "o">>, <<"8">>>>, <<<<"n", "u", "e", "v", "e">>, <<"9">>>>,
     <<<<"d", "i", "e", "z">>, <<"1", "0">>>>
    }

NUMBER_MAP ==
    [w \in {p[1] : p \in NumberWords} |-> (CHOOSE p \in NumberWords : p[1] = w)[2]]

\* the characters of /[.,/#!$%^&*;:{}=\-_`~()]/g ("grave" is the grave accent)
Punctuation ==
    {".", ",", "/", "#", "!", "$", "%", "^", "&", "*", ";", ":", "{", "}", "=",
     "-", "_", "grave", "~", "(", ")"}

IsDigit(c) == c \in {"0", "1", "2", "3", "4", "5", "6", "7", "8", "9"}

\* /^\d+$/.test(s)
IsDigits(s) == Len(s) > 0 /\ \A i \in 1..Len(s) : IsDigit(s[i])

IsSpace(c) == c = " "

\* String.prototype.trim
Trim(s) ==
    LET inked == {i \in 1..Len(s) : ~IsSpace(s[i])} IN
    IF inked = {} THEN <<>>
    ELSE SubSeq(s, CHOOSE i \in inked : \A k \in inked : i <= k,
                   CHOOSE j \in inked : \A k \in inked : k <= j)

\* s.split(/\s+/)
RECURSIVE SplitSpaces(_)
SplitSpaces(s) ==
    LET spaces == {i \in 1..Len(s) : IsSpace(s[i])} IN
    IF spaces = {} THEN <<s>>
    ELSE LET i == CHOOSE x \in spaces : \A k \in spaces : x <= k
             after == {k \in (i + 1)..Len(s) : ~IsSpace(s[k])}
         IN
         IF after = {} THEN <<SubSeq(s, 1, i - 1), <<>> >>
         ELSE LET j == CHOOSE x \in after : \A k \in after : x <= k IN
              <<SubSeq(s, 1, i - 1)>> \o SplitSpaces(SubSeq(s, j, Len(s)))

IsNotPunctuation(c) == c \notin Punctuation

\* NUMBER_MAP is an object literal: a key it does not own is looked up in
\* Object.prototype, whose only property with a lower-case name free of
\* punctuation is constructor, the function Object.  A function that is
\* tested by a regular expression or joined is turned into its source text.
ObjectSource ==
    <<"f", "u", "n", "c", "t", "i", "o", "n", " ", "O", "b", "j", "e", "c", "t", "(", ")", " ",
      "{", " ", "[", "n", "a", "t", "i", "v", "e", " ", "c", "o", "d", "e", "]", " ", "}">>
Inherited == [w \in {<<"c", "o", "n", "s", "t", "r", "u", "c", "t", "o", "r">>} |-> ObjectSource]

\* token => NUMBER_MAP[cleanToken] || cleanToken
TranslateToken(token) ==
    LET cleanToken == SelectSeq(token, IsNotPunctuation) IN
    IF cleanToken \in DOMAIN NUMBER_MAP THEN NUMBER_MAP[cleanToken]
    ELSE IF cleanToken \in DOMAIN Inherited THEN Inherited[cleanToken]
    ELSE cleanToken

\* Array.prototype.join
RECURSIVE Join(_, _)
Join(parts, sep) ==
    IF Len(parts) = 0 THEN <<>>
    ELSE IF Len(parts) = 1 THEN parts[1]
    ELSE parts[1] \o sep \o Join(Tail(parts), sep)

normalize(text) ==
    IF text = <<>> THEN <<>>
    ELSE LET lower == Trim(ToLower(text)) IN
         IF IsDigits(lower) THEN lower
         ELSE LET tokens == SplitSpaces(lower)
                  translated == [i \in 1..Len(tokens) |-> TranslateToken(tokens[i])]
              IN
              IF \A i \in 1..Len(translated) : IsDigits(translated[i])
              THEN Join(translated, <<>>)
              ELSE Join(translated, <<" ">>)

(***************************************************************************)
(* extension/content.js: the orchestrator of one page context.  It polls  *)
(* the document every checkInterval ms (solveLoop) and runs solveRecaptcha *)
(* or solveTurnstile; each call runs to its first await inside the poll    *)
(* and is resumed later, between polls.                                     *)
(***************************************************************************)
\* ---- CONFIG ----
checkInterval == 300
maxSolveAttempts == 5
debounceDelay == 500

\* ---- bounds of the exploration ----
\* solveRecaptcha / solveTurnstile calls that may be suspended at once
MaxFlows == 2
\* poll periods between two firings of the timer (a throttled timer fires late)
MaxTickGap == 2

\* What the selectors of the script find in the document.  An element is
\* "none" (absent), "hidden" (offsetParent null) or "visible".
NoDom ==
    [checked |-> "none", border |-> "none", rcFrame |-> FALSE,
     audioBtn |-> "none", audioBlock |-> FALSE, audioSource |-> FALSE,
     responseInput |-> "none", verifyBtn |-> FALSE,
     errorMsg |-> "none", reloadBtn |-> FALSE,
     tsWidget |-> "none", token |-> "none"]

\* the anchor frame, before and after the checkbox is ticked
DomAnchor == [NoDom EXCEPT !.border = "visible"]
DomChecked == [NoDom EXCEPT !.border = "visible", !.checked = "visible"]
\* the challenge frame: image challenge, audio challenge, rejected answer,
\* and the "try again later" block that offers no reload
DomImage == [NoDom EXCEPT !.audioBtn = "visible", !.verifyBtn = TRUE, !.reloadBtn = TRUE]
DomAudio ==
    [NoDom EXCEPT !.audioBtn = "hidden", !.audioBlock = TRUE, !.audioSource = TRUE,
                  !.responseInput = "empty", !.verifyBtn = TRUE, !.reloadBtn = TRUE,
                  !.errorMsg = "hidden"]
DomAudioNoReload == [DomAudio EXCEPT !.reloadBtn = FALSE]
DomAudioError == [DomAudio EXCEPT !.responseInput = "filled", !.errorMsg = "visible"]
DomBlocked == [NoDom EXCEPT !.audioBlock = TRUE, !.errorMsg = "visible"]
\* a host page with a Turnstile widget, before and after it holds a token
DomTurnstile == [NoDom EXCEPT !.tsWidget = "div", !.token = "short"]
DomTurnstileSolved == [NoDom EXCEPT !.tsWidget = "div", !.token = "long"]
\* a host page that embeds both widgets
DomBoth == [NoDom EXCEPT !.rcFrame = TRUE, !.tsWidget = "iframe"]
\* a document that shows the reCAPTCHA checkbox and a Turnstile widget
DomBothInline == [NoDom EXCEPT !.border = "visible", !.tsWidget = "div", !.token = "short"]

\* the scenes by the document that shows them
AnchorScenes == {DomAnchor, DomChecked}
ChallengeScenes == {DomImage, DomAudio, DomAudioNoReload, DomAudioError, DomBlocked}
HostScenes == {NoDom, DomTurnstile, DomTurnstileSolved, DomBoth, DomBothInline}

Doms == AnchorScenes \cup ChallengeScenes \cup HostScenes

\* tsWidget: "iframe" is a challenges.cloudflare.com iframe, "div" an element
\* of class cf-turnstile, "wrapper" an element whose class only contains
\* "cf-turnstile", "none" neither.
detectTurnstile(d) == d.tsWidget # "none"

detectRecaptcha(d) ==
    \/ d.border # "none"
    \/ d.rcFrame
    \/ d.audioBtn # "none" \/ d.audioSource \/ d.audioBlock

\* input[name="cf-turnstile-response"] holds a value longer than 20
hasToken(d) == d.token = "long"

\* what solveTurnstile's two querySelector calls for the widget find
findWidget(d) == IF d.tsWidget = "wrapper" THEN "none" ELSE d.tsWidget

\* .recaptcha-checkbox-checked is there and rendered
isCheckedVisible(d) == d.checked = "visible"

\* ---- State ----
\* (a retry test that lets the counter pass the maximum)
canRetryInclusive(n) == n <= maxSolveAttempts

canRetry(n) == n < maxSolveAttempts

shouldDebounce(age) == age < debounceDelay

\* (an error handler that never reloads)
canReloadNever(n, d) == FALSE

\* reloadBtn && State.canRetry(), with n the value of State.solveAttempts
canReload(n, d) == d.reloadBtn /\ canRetry(n)

\* Date.now() - lastSolveTime after State.reset() (lastSolveTime = 0)
AgeAfterReset == debounceDelay

\* the age at a poll that fires gap poll periods after the last one
AgeAtTick(age, gap) ==
    IF age + gap * checkInterval < debounceDelay THEN age + gap * checkInterval ELSE debounceDelay

\* ---- positions at which a call is suspended ----
\* rc1, rc2: in the sleeps around the click of step 1 / step 2; rc3_answer:
\* typing the transcript and clicking verify; rc3_error: showing the error;
\* rc3_reload, rc4_reload: in the sleeps around a reload click; ts_click: in
\* the sleeps around the Turnstile click; *_notify, rc3_transcribe: waiting
\* for the answer to a message.
FlowPcs ==
    {"rc0_notify", "rc1", "rc2",
     "rc3_transcribe", "rc3_answer", "rc3_error", "rc3_reload", "rc4_reload",
     "ts0_notify", "ts_click", "ts1_notify"}
\* how many calls are suspended
InFlight ==
    flows["rc0_notify"] + flows["rc1"] + flows["rc2"]
    + flows["rc3_transcribe"] + flows["rc3_answer"] + flows["rc3_error"]
    + flows["rc3_reload"] + flows["rc4_reload"]
    + flows["ts0_notify"] + flows["ts_click"] + flows["ts1_notify"]

NoFlows == [pc \in FlowPcs |-> 0]

\* ---- the answers to a transcribe request ----
\* What awaiting sendMessageWithTimeout({action: 'transcribe'}) gives: a
\* rejection (the timeout, or chrome.runtime.lastError) or the response.
NoResponse == [defined |-> FALSE, success |-> FALSE, text |-> <<>>]
TranscribeReplies ==
    [timeout      |-> [rejected |-> TRUE, response |-> NoResponse],
     runtimeError |-> [rejected |-> TRUE, response |-> NoResponse],
     undefined    |-> [rejected |-> FALSE, response |-> NoResponse],
     failure      |-> [rejected |-> FALSE, response |-> [defined |-> TRUE, success |-> FALSE, text |-> <<>>]],
     noText       |-> [rejected |-> FALSE, response |-> [defined |-> TRUE, success |-> TRUE, text |-> <<>>]],
     blankText    |-> [rejected |-> FALSE, response |-> [defined |-> TRUE, success |-> TRUE, text |-> <<" ", " ">>]],
     transcript   |-> [rejected |-> FALSE, response |-> [defined |-> TRUE, success |-> TRUE, text |-> <<"8", "5">>]]]

\* (a test that takes any truthy text for a transcript)
hasTranscriptIfTruthy(reply) ==
    /\ ~reply.rejected
    /\ reply.response.defined /\ reply.response.success /\ reply.response.text # <<>>

\* response && response.success && response.text, and text.trim() not empty
hasTranscript(reply) ==
    /\ ~reply.rejected
    /\ reply.response.defined /\ reply.response.success /\ reply.response.text # <<>>
    /\ Len(Trim(reply.response.text)) # 0

\* ---- errors ----
\* Where an error is raised, and the catch block that takes it (or "none":
\* the error leaves solveLoop and the promise of the tick rejects).
\*   loop: detect   detectTurnstile / detectRecaptcha called by solveLoop
\*   ts: detect     detectTurnstile called by solveTurnstile before its try
\*   ts: body       the try block of solveTurnstile
\*   rc: body       the try block of solveRecaptcha, outside step 3's try
\*   rc3: try       the try block of step 3 (request, typing, verify)
\*   rc3: catch     the catch block of step 3 (reload)
\* (error handling without the try of solveLoop)
caughtByOwnFunction(site) ==
    CASE site = "ts: body" -> "solveTurnstile"
      [] site = "rc: body" -> "solveRecaptcha"
      [] site = "rc3: try" -> "step 3"
      [] site = "rc3: catch" -> "solveRecaptcha"
      [] OTHER -> "none"

caughtBy(site) ==
    CASE site = "loop: detect" -> "solveLoop"
      [] site = "ts: detect" -> "solveLoop"
      [] site = "ts: body" -> "solveTurnstile"
      [] site = "rc: body" -> "solveRecaptcha"
      [] site = "rc3: try" -> "step 3"
      [] site = "rc3: catch" -> "solveRecaptcha"
      [] OTHER -> "none"

NoEvent == [reply |-> "none", error |-> "none", caught |-> "none", rejected |-> FALSE, act |-> "none"]
\* event is kept only by the specification that observes the flows
Unobserved == [NoEvent EXCEPT !.act = "unobserved"]
Log(e) == IF event = Unobserved THEN Unobserved ELSE e

InitState ==
    /\ isSolving = FALSE
    /\ hasNotified = FALSE
    /\ solveAttempts = 0
    /\ solveAge = AgeAfterReset
    /\ dom \in Doms
    /\ flows = NoFlows
    /\ notifiesInPeriod = 0
    /\ limitReached = FALSE

InitPage == InitState /\ event = Unobserved

SuccessPresent(d) == isCheckedVisible(d) \/ hasToken(d)

\* State.reset() and State.incrementAttempt() on the record s of State's fields
reset(s) == [s EXCEPT !.isSolving = FALSE, !.solveAttempts = 0, !.solveAge = AgeAfterReset]

incrementAttempt(s) == [s EXCEPT !.solveAttempts = @ + 1, !.solveAge = 0]

\* The outcome of a call up to its first await: the State it leaves and the
\* position where it is suspended ("none" when it returned).
Returned(s) == [state |-> s, at |-> "none"]
Suspended(s, pc) == [state |-> s, at |-> pc]

(***************************************************************************)
(* solveTurnstile up to its first await, on State s and document d.        *)
(***************************************************************************)
solveTurnstile(s, d) ==
    IF s.isSolving \/ ~canRetry(s.solveAttempts) THEN Returned(s)
    ELSE IF ~detectTurnstile(d) THEN Returned(s)
    ELSE IF hasToken(d)
         THEN IF ~s.hasNotified THEN Suspended(s, "ts0_notify") ELSE Returned(s)
    ELSE IF findWidget(d) = "none" THEN Returned(s)
    ELSE Suspended(incrementAttempt([s EXCEPT !.isSolving = TRUE]), "ts_click")

(***************************************************************************)
(* solveRecaptcha up to its first await, on State s and document d.        *)
(***************************************************************************)
solveRecaptcha(s, d) ==
    IF s.isSolving \/ ~canRetry(s.solveAttempts) THEN Returned(s)
    ELSE IF shouldDebounce(s.solveAge) THEN Returned(s)
    \* 0. success
    ELSE IF isCheckedVisible(d)
         THEN IF ~s.hasNotified THEN Suspended(s, "rc0_notify") ELSE Returned(reset(s))
    ELSE LET unchecked == d.border # "none" /\ d.checked = "none"
             s1 == IF unchecked THEN [s EXCEPT !.hasNotified = FALSE] ELSE s
         IN
         \* 1. checkbox
         IF unchecked /\ d.border = "visible"
         THEN Suspended(incrementAttempt([s1 EXCEPT !.isSolving = TRUE]), "rc1")
         \* 2. audio button
         ELSE IF d.audioBtn = "visible" /\ ~d.audioBlock
         THEN Suspended(incrementAttempt([s1 EXCEPT !.isSolving = TRUE]), "rc2")
         \* 3. audio challenge
         ELSE IF d.audioSource /\ d.responseInput = "empty" /\ d.verifyBtn
         THEN Suspended(incrementAttempt([s1 EXCEPT !.isSolving = TRUE]), "rc3_transcribe")
         \* 4. error message
         ELSE IF d.errorMsg = "visible"
         THEN IF canReload(s1.solveAttempts, d)
              THEN Suspended(incrementAttempt(s1), "rc4_reload")
              ELSE Returned(reset(s1))
         ELSE Returned(s1)

(***************************************************************************)
(* solveLoop up to its first await.                                        *)
(***************************************************************************)
\* (a loop that prefers Turnstile)
solveLoopTurnstileFirst(s, d) ==
    IF s.isSolving \/ shouldDebounce(s.solveAge) THEN Returned(s)
    ELSE IF detectTurnstile(d) THEN solveTurnstile(s, d)
    ELSE IF detectRecaptcha(d) THEN solveRecaptcha(s, d)
    ELSE Returned(s)

solveLoop(s, d) ==
    IF s.isSolving \/ shouldDebounce(s.solveAge) THEN Returned(s)
    ELSE IF detectRecaptcha(d) THEN solveRecaptcha(s, d)
    ELSE IF detectTurnstile(d) THEN solveTurnstile(s, d)
    ELSE Returned(s)

\* ---- the effect of a step on the variables ----
Becomes(s) ==
    /\ isSolving' = s.isSolving
    /\ hasNotified' = s.hasNotified
    /\ solveAttempts' = s.solveAttempts
    /\ solveAge' = s.solveAge
    /\ limitReached' = (limitReached \/ s.solveAttempts = maxSolveAttempts)

Now == [isSolving |-> isSolving, hasNotified |-> hasNotified,
        solveAttempts |-> solveAttempts, solveAge |-> solveAge]

Starts(pc) == InFlight < MaxFlows /\ flows' = [flows EXCEPT ![pc] = @ + 1]
Moves(from, to) == flows[from] > 0 /\ flows' = [flows EXCEPT ![from] = @ - 1, ![to] = @ + 1]
Ends(pc) == flows[pc] > 0 /\ flows' = [flows EXCEPT ![pc] = @ - 1]

NotifySent == notifiesInPeriod' = IF notifiesInPeriod < 2 THEN notifiesInPeriod + 1 ELSE 2

StateUnchanged == UNCHANGED <<isSolving, hasNotified, solveAttempts, solveAge, limitReached>>

\* ---- what a step leaves in event ----
Quiet == event' = Log(NoEvent)
Did(act) == event' = Log([NoEvent EXCEPT !.act = act])
Threw(site, e) ==
    [e EXCEPT !.error = site, !.caught = caughtBy(site), !.rejected = (caughtBy(site) = "none")]

\* The catch blocks of solveLoop, solveRecaptcha and solveTurnstile set
\* State.isSolving = false and hide the loader; an error no catch takes
\* leaves State as it is.
AfterCatch(s, site) ==
    IF caughtBy(site) = "none" THEN s ELSE [s EXCEPT !.isSolving = FALSE]

\* An error raised at site in the call suspended at pc: the catch of step 3
\* goes on to show the error, the others end the call.
Raise(pc, site, e) ==
    /\ event' = Log(Threw(site, e))
    /\ IF caughtBy(site) = "step 3"
       THEN Moves(pc, "rc3_error") /\ StateUnchanged
       ELSE Ends(pc) /\ Becomes(AfterCatch(Now, site))

\* One firing of setInterval(solveLoop, CONFIG.checkInterval): the call runs
\* to its first await, or detectTurnstile / detectRecaptcha raises.
Tick ==
    /\ PageOnly
    /\ \E gap \in 1..MaxTickGap, site \in {"none", "loop: detect", "ts: detect"} :
        LET s == [Now EXCEPT !.solveAge = AgeAtTick(solveAge, gap)]
            r == solveLoop(s, dom)
        IN
        IF site = "none"
        THEN /\ Becomes(r.state)
             /\ IF r.at = "none" THEN UNCHANGED flows ELSE Starts(r.at)
             /\ IF r.at \in {"rc0_notify", "ts0_notify"} THEN NotifySent ELSE UNCHANGED notifiesInPeriod
             /\ Quiet
             /\ UNCHANGED dom
        ELSE /\ ~s.isSolving /\ ~shouldDebounce(s.solveAge)
             /\ site = "ts: detect" =>
                    ~detectRecaptcha(dom) /\ detectTurnstile(dom) /\ canRetry(s.solveAttempts)
             /\ Becomes(AfterCatch(s, site))
             /\ event' = Log(Threw(site, NoEvent))
             /\ UNCHANGED <<dom, flows, notifiesInPeriod>>

\* The host page or the widget changes the document.
DomChange ==
    /\ PageOnly
    /\ \E d \in Doms \ {dom} :
        /\ dom' = d
        /\ notifiesInPeriod' =
                IF \/ isCheckedVisible(dom) /\ isCheckedVisible(d)
                   \/ hasToken(dom) /\ hasToken(d)
                THEN notifiesInPeriod ELSE 0
    /\ Quiet
    /\ UNCHANGED <<isSolving, hasNotified, solveAttempts, solveAge, flows, limitReached>>
(***************************************************************************)
(* The suspended calls resume.  Each action takes one call from the       *)
(* position it is suspended at to the next position, or to its return.     *)
(***************************************************************************)
\* solveRecaptcha step 0: the notify request is answered, or it is rejected
\* (runtime error or the messageTimeout timer).
rc0_notifyReturns ==
    /\ PageOnly
    /\ \E answered \in BOOLEAN :
        IF answered
        THEN Ends("rc0_notify") /\ Becomes(reset([Now EXCEPT !.hasNotified = TRUE])) /\ Quiet
        ELSE Raise("rc0_notify", "rc: body", NoEvent)
    /\ UNCHANGED <<dom, notifiesInPeriod>>

\* step 1: the checkbox has been clicked and the second sleep ends, or the
\* click raises
rc1_returns ==
    /\ PageOnly
    /\ \E clicked \in BOOLEAN :
        IF clicked
        THEN Ends("rc1") /\ Becomes([Now EXCEPT !.isSolving = FALSE]) /\ Quiet
        ELSE Raise("rc1", "rc: body", NoEvent)
    /\ UNCHANGED <<dom, notifiesInPeriod>>

\* step 2: the audio button has been clicked and the second sleep ends, or
\* the click raises
rc2_returns ==
    /\ PageOnly
    /\ \E clicked \in BOOLEAN :
        IF clicked
        THEN Ends("rc2") /\ Becomes([Now EXCEPT !.isSolving = FALSE]) /\ Quiet
        ELSE Raise("rc2", "rc: body", NoEvent)
    /\ UNCHANGED <<dom, notifiesInPeriod>>

\* step 3: the transcribe request is settled.  With a transcript the call
\* goes on to type it; otherwise an Error is thrown into the catch of step 3.
rc3_transcribeReturns ==
    /\ PageOnly
    /\ \E name \in DOMAIN TranscribeReplies :
        LET heard == [NoEvent EXCEPT !.reply = name] IN
        IF hasTranscript(TranscribeReplies[name])
        THEN Moves("rc3_transcribe", "rc3_answer") /\ StateUnchanged /\ event' = Log(heard)
        ELSE Raise("rc3_transcribe", "rc3: try", heard)
    /\ UNCHANGED <<dom, notifiesInPeriod>>

\* step 3: the transcript is typed and verify clicked, or simulateTyping
\* throws into the catch of step 3
rc3_answerReturns ==
    /\ PageOnly
    /\ \E typed \in BOOLEAN :
        IF typed
        THEN Ends("rc3_answer") /\ Becomes([Now EXCEPT !.isSolving = FALSE]) /\ Did("answer")
        ELSE Raise("rc3_answer", "rc3: try", NoEvent)
    /\ UNCHANGED <<dom, notifiesInPeriod>>

\* step 3, catch: the error has been shown for 3 s; reload is clicked if the
\* button is there and State.canRetry()
rc3_errorShown ==
    /\ PageOnly
    /\ IF canReload(solveAttempts, dom)
       THEN Moves("rc3_error", "rc3_reload") /\ StateUnchanged /\ Did("reload")
       ELSE Ends("rc3_error") /\ Becomes([Now EXCEPT !.isSolving = FALSE]) /\ Quiet
    /\ UNCHANGED <<dom, notifiesInPeriod>>

\* step 3, catch: the sleep after the reload click ends, or the click raised
rc3_reloadReturns ==
    /\ PageOnly
    /\ \E clicked \in BOOLEAN :
        IF clicked
        THEN Ends("rc3_reload") /\ Becomes([Now EXCEPT !.isSolving = FALSE]) /\ Quiet
        ELSE Raise("rc3_reload", "rc3: catch", NoEvent)
    /\ UNCHANGED <<dom, notifiesInPeriod>>

\* step 4: the sleep after the reload click ends and the call returns
rc4_returns ==
    /\ PageOnly
    /\ Ends("rc4_reload")
    /\ Quiet
    /\ UNCHANGED <<isSolving, hasNotified, solveAttempts, solveAge, dom, notifiesInPeriod, limitReached>>

\* solveTurnstile, already solved: the notify request is answered or rejected
ts0_notifyReturns ==
    /\ PageOnly
    /\ \E answered \in BOOLEAN :
        IF answered
        THEN Ends("ts0_notify") /\ Becomes([Now EXCEPT !.hasNotified = TRUE]) /\ Quiet
        ELSE Raise("ts0_notify", "ts: body", NoEvent)
    /\ UNCHANGED <<dom, notifiesInPeriod>>

\* solveTurnstile: the widget has been clicked, the second sleep ends and
\* the token is looked up; or the click raises
ts_checkResult ==
    /\ PageOnly
    /\ \E clicked \in BOOLEAN :
        IF ~clicked
        THEN Raise("ts_click", "ts: body", NoEvent) /\ UNCHANGED notifiesInPeriod
        ELSE /\ Quiet
             /\ IF hasToken(dom)
                THEN IF ~hasNotified
                     THEN /\ Moves("ts_click", "ts1_notify")
                          /\ NotifySent
                          /\ StateUnchanged
                     ELSE /\ Ends("ts_click")
                          /\ Becomes(reset(Now))
                          /\ UNCHANGED notifiesInPeriod
                ELSE /\ Ends("ts_click")
                     /\ Becomes([Now EXCEPT !.isSolving = FALSE])
                     /\ UNCHANGED notifiesInPeriod
    /\ UNCHANGED dom

\* solveTurnstile: the notify request after the click is answered or rejected
ts1_notifyReturns ==
    /\ PageOnly
    /\ \E answered \in BOOLEAN :
        IF answered
        THEN Ends("ts1_notify") /\ Becomes(reset([Now EXCEPT !.hasNotified = TRUE])) /\ Quiet
        ELSE Raise("ts1_notify", "ts: body", NoEvent)
    /\ UNCHANGED <<dom, notifiesInPeriod>>

Resume ==
    \/ rc0_notifyReturns \/ rc1_returns \/ rc2_returns
    \/ rc3_transcribeReturns \/ rc3_answerReturns
    \/ rc3_errorShown \/ rc3_reloadReturns
    \/ rc4_returns
    \/ ts0_notifyReturns \/ ts_checkResult \/ ts1_notifyReturns

NextPage == Tick \/ DomChange \/ Resume
\* ---- what the model explores ----
\* the downloads, with their first three bytes: a clip with an ID3 tag, a
\* clip of exactly minAudioSize bytes without an MP3 header, and three bodies
\* too short to be audio (an MPEG frame header, an ID3 tag, nothing)
Buffers ==
    {[bytes |-> "clipA", byteLength |-> 24576, header |-> <<73, 68, 51>>],
     [bytes |-> "clipB", byteLength |-> 100, header |-> <<82, 73, 70>>],
     [bytes |-> "stub", byteLength |-> 50, header |-> <<255, 251, 144>>],
     [bytes |-> "short", byteLength |-> 99, header |-> <<73, 68, 51>>],
     [bytes |-> "empty", byteLength |-> 0, header |-> <<>>]}
AudioUrls == {"payload?c=1", "payload?c=2"}

\* how a call to the speech API fails: a status that is not 2xx, fetch
\* rejecting, a body in which parseResponse finds no text
WitFailures == {"non-2xx", "network error", "no text"}

\* the texts parseResponse finds in the answers of the speech API
RawTexts ==
    {<<"E", "i", "g", "h", "t", " ", "f", "i", "v", "e", ".">>,
     <<"h", "e", "l", "l", "o">>,
     <<"-">>}
Normalized == [t \in RawTexts |-> normalize(t)]

\* ---- bounds of the exploration ----
\* the clock advances in steps of half the cache expiration, this many times
MaxClockSteps == 2
\* this many transcribe messages arrive
MaxMessages == 2

ClockStep == cacheExpiration \div 2

\* crypto.subtle.digest('SHA-256', buffer) as lower-case hex: a value fixed
\* by the bytes alone, different for different bytes
generateHash(buffer) == <<"sha256", buffer.bytes>>

Hashes == {generateHash(b) : b \in Buffers}

NoEntry == [text |-> <<>>, timestamp |-> -1]

\* (an expiration test with half the expiration)
isFreshHalf(age) == age < cacheExpiration \div 2

\* age < CONFIG.cacheExpiration
isFresh(age) == age < cacheExpiration

\* ---- AudioValidator.validate: what it throws, or the header it found ----
\* (a validator that insists on an MP3 header)
validateStrict(buffer) ==
    IF buffer.byteLength = 0 THEN "Empty audio buffer"
    ELSE IF buffer.byteLength < minAudioSize THEN "Audio buffer too small"
    ELSE IF buffer.header = <<73, 68, 51>> THEN "ID3 tag"
    ELSE IF buffer.header[1] = 255 /\ buffer.header[2] \div 32 = 7 THEN "frame sync"
    ELSE "Invalid audio header"

validate(buffer) ==
    IF buffer.byteLength = 0 THEN "Empty audio buffer"
    ELSE IF buffer.byteLength < minAudioSize THEN "Audio buffer too small"
    ELSE IF buffer.header = <<73, 68, 51>> THEN "ID3 tag"
    ELSE IF buffer.header[1] = 255 /\ buffer.header[2] \div 32 = 7 THEN "frame sync"
    ELSE "uncertain header"

\* validate returned true
Validated == {"ID3 tag", "frame sync", "uncertain header"}

\* ---- WitClient.transcribe: attempt < CONFIG.maxRetries ----
\* (a loop that retries once more)
mayRetryInclusive(attempt) == attempt <= maxRetries

mayRetry(attempt) == attempt < maxRetries

\* ---- WitClient.transcribe: the wait after failed attempt number attempt ----
\* (a wait of the same length after every attempt)
delayFlat(attempt) == retryDelay

delay(attempt) == retryDelay * attempt

\* ---- MemoryCache, on the sequence m of the Map's [key, value] entries ----
MemHas(m, key) == \E i \in 1..Len(m) : m[i].key = key
MemValue(m, key) == (CHOOSE e \in {m[i] : i \in 1..Len(m)} : e.key = key).value
MemDelete(m, key) ==
    LET keep == {i \in 1..Len(m) : m[i].key # key}
        nth(n) == CHOOSE i \in keep : Cardinality({k \in keep : k < i}) = n - 1
    IN [n \in 1..Cardinality(keep) |-> m[nth(n)]]

\* (a get that leaves the entry where it is)
MemoryCacheGetInPlace(m, key) == m

\* MemoryCache.get: the Map after the call (a hit moves the entry to the end)
MemoryCacheGet(m, key) ==
    IF ~MemHas(m, key) THEN m
    ELSE Append(MemDelete(m, key), [key |-> key, value |-> MemValue(m, key)])

\* MemoryCache.set of a cache constructed with maxSize
MemorySet(m, maxSize, key, value) ==
    LET m1 == IF MemHas(m, key) THEN MemDelete(m, key) ELSE m
        m2 == IF Len(m1) >= maxSize THEN Tail(m1) ELSE m1
    IN Append(m2, [key |-> key, value |-> value])

\* MemoryCache.set of memoryCache = new MemoryCache()
MemoryCacheSet(m, key, value) == MemorySet(m, maxMemoryCacheSize, key, value)

\* ---- the senders of transcribe requests, and the run of each ----
\* the frames that send requests; each awaits the response to its request
\* before it sends another
Senders == {"tabA", "tabB"}

\* the audio challenge of each sender, which its messages name
Challenge == [r \in Senders |-> IF r = "tabA" THEN "payload?c=1" ELSE "payload?c=2"]

Unanswered == [success |-> FALSE, error |-> "none", by |-> "none"]

\* pc is the await the run is at; legacy is the await the handler of the
\* first listener is at, or how it ended; n numbers the messages in their
\* order of arrival; open tells that the message channel has had no
\* response yet; waits are the delays the retry loop has slept
NoJob ==
    [pc |-> "idle", audioUrl |-> "none", startTime |-> 0, bytes |-> "none", byteLength |-> -1,
     hash |-> <<>>, prior |-> NoEntry, lookupTime |-> 0, source |-> "none", text |-> <<>>,
     attempt |-> 0, reply |-> "none", error |-> "none", waits |-> <<>>,
     legacy |-> "idle", n |-> 0, open |-> FALSE, response |-> Unanswered]

Ended == {"idle", "returned", "failed"}
LegacyEnded == {"idle", "refused", "done"}

\* the run of the first sender
job == jobs["tabA"]

\* (a check that finds a token whatever is stored)
tokenStoredAlways(token) == TRUE

\* !token, !settings.witAiToken
tokenStored(token) == token # ""

\* sendResponse: the first call on a channel is the response, later calls
\* and calls without a channel have no effect
sendResponse(j, success, error, by) ==
    IF j.open
    THEN [j EXCEPT !.open = FALSE,
                   !.response = [success |-> success, error |-> error, by |-> by]]
    ELSE j

\* the handler of the second listener after processAudioPipeline: the
\* result is sent, or the catch sends error.message; the handler returns and
\* the locals of the run are gone.  (A run called without a message, n = 0,
\* leaves its last state to be read.)
settled(j) ==
    IF j.n = 0 \/ j.pc \notin {"returned", "failed"} THEN j
    ELSE sendResponse([NoJob EXCEPT !.pc = j.pc, !.audioUrl = j.audioUrl, !.source = j.source,
                                    !.text = j.text, !.error = j.error, !.legacy = j.legacy,
                                    !.n = j.n, !.open = j.open, !.response = j.response],
                      j.pc = "returned", j.error, "pipeline")

\* processAudioPipeline(audioUrl, token) up to the download
started(j, audioUrl) ==
    [NoJob EXCEPT !.pc = "download", !.audioUrl = audioUrl, !.startTime = clock,
                  !.legacy = j.legacy, !.n = j.n, !.open = j.open, !.response = j.response]

InitWorker ==
    /\ clock = 0
    /\ memoryCache = <<>>
    /\ storage = [h \in Hashes |-> NoEntry]
    /\ jobs = [r \in Senders |-> NoJob]
    /\ served = [b \in {x.bytes : x \in Buffers} |-> NoEntry]
    /\ received = 0
    /\ witAiToken = ""

\* Time passes.
TimePasses ==
    /\ WorkerOnly
    /\ clock < MaxClockSteps * ClockStep
    /\ clock' = clock + ClockStep
    /\ UNCHANGED <<memoryCache, storage, jobs, served, received, witAiToken>>

\* The idle service worker is shut down and started again: the Map is new.
Restart ==
    /\ WorkerOnly
    /\ \A r \in Senders : jobs[r].pc \in Ended /\ jobs[r].legacy \in LegacyEnded
    /\ memoryCache # <<>>
    /\ memoryCache' = <<>>
    /\ UNCHANGED <<clock, storage, jobs, served, received, witAiToken>>

\* The options page stores the credential, or clears it.
tokenSaved ==
    /\ WorkerOnly
    /\ witAiToken' = IF witAiToken = "" THEN "token" ELSE ""
    /\ UNCHANGED <<clock, memoryCache, storage, jobs, served, received>>

\* A transcribe message of sender r arrives: both onMessage listeners start
\* a handler, return true, and each handler awaits chrome.storage.sync.get.
onMessage(r) ==
    /\ WorkerOnly
    /\ jobs[r].pc \in Ended /\ jobs[r].legacy \in LegacyEnded /\ ~jobs[r].open
    /\ received < MaxMessages
    /\ received' = received + 1
    /\ jobs' = [jobs EXCEPT ![r] = [NoJob EXCEPT !.pc = "settings", !.audioUrl = Challenge[r],
                                                  !.legacy = "settings", !.n = received + 1,
                                                  !.open = TRUE]]
    /\ UNCHANGED <<clock, memoryCache, storage, served, witAiToken>>

\* The handler of the first listener has the settings: without a token it
\* responds, with one it calls transcribeAudio.
legacySettings(r) ==
    /\ WorkerOnly
    /\ jobs[r].legacy = "settings"
    /\ jobs' = [jobs EXCEPT ![r] =
            IF ~tokenStored(witAiToken)
            THEN [sendResponse(@, FALSE, "Token missing", "legacy") EXCEPT !.legacy = "refused"]
            ELSE [@ EXCEPT !.legacy = "transcribeAudio"]]
    /\ UNCHANGED <<clock, memoryCache, storage, served, received, witAiToken>>

\* transcribeAudio (download, one call to the speech API, no cache) returns
\* a text or null, and the handler of the first listener responds.
transcribeAudioReturns(r) ==
    /\ WorkerOnly
    /\ jobs[r].legacy = "transcribeAudio"
    /\ \E found \in BOOLEAN :
        jobs' = [jobs EXCEPT ![r] =
            [(IF found THEN sendResponse(@, TRUE, "none", "legacy")
                       ELSE sendResponse(@, FALSE, "Transcription returned null", "legacy"))
             EXCEPT !.legacy = "done"]]
    /\ UNCHANGED <<clock, memoryCache, storage, served, received, witAiToken>>

\* The handler of the second listener has the settings: without a token it
\* responds, with one it calls processAudioPipeline, which awaits the download.
settingsRead(r) ==
    /\ WorkerOnly
    /\ jobs[r].pc = "settings"
    /\ jobs' = [jobs EXCEPT ![r] =
            IF ~tokenStored(witAiToken)
            THEN sendResponse([@ EXCEPT !.pc = "failed", !.error = "token"],
                              FALSE, "token", "pipeline")
            ELSE started(@, @.audioUrl)]
    /\ UNCHANGED <<clock, memoryCache, storage, served, received, witAiToken>>

\* processAudioPipeline(audioUrl, token) is called, once the run before it
\* has ended, and waits for the download.
processAudioPipeline(r) ==
    /\ WorkerOnly
    /\ jobs[r].pc \in Ended
    /\ \E audioUrl \in AudioUrls :
        jobs' = [jobs EXCEPT ![r] = started(NoJob, audioUrl)]
    /\ UNCHANGED <<clock, memoryCache, storage, served, received, witAiToken>>

\* 1-2. the download ends: a response that is not ok, or a body, which
\* AudioValidator.validate accepts or throws on; then the hash is awaited.
Downloaded(r) ==
    /\ WorkerOnly
    /\ jobs[r].pc = "download"
    /\ \/ jobs' = [jobs EXCEPT ![r] = settled([@ EXCEPT !.pc = "failed", !.error = "download"])]
       \/ \E buffer \in Buffers :
            IF validate(buffer) \notin Validated
            THEN jobs' = [jobs EXCEPT ![r] =
                            settled([@ EXCEPT !.pc = "failed", !.error = "validation",
                                              !.bytes = buffer.bytes,
                                              !.byteLength = buffer.byteLength])]
            ELSE jobs' = [jobs EXCEPT ![r] =
                            [@ EXCEPT !.pc = "hash",
                                      !.bytes = buffer.bytes, !.byteLength = buffer.byteLength,
                                      !.hash = generateHash(buffer),
                                      !.prior = served[buffer.bytes]]]
    /\ UNCHANGED <<clock, memoryCache, storage, served, received, witAiToken>>

\* 3. CacheService.get up to its await: the memory tier answers, or
\* chrome.storage.local.get is awaited.
CacheGetMemory(r) ==
    /\ WorkerOnly
    /\ jobs[r].pc = "hash"
    /\ memoryCache' = MemoryCacheGet(memoryCache, jobs[r].hash)
    /\ IF MemHas(memoryCache, jobs[r].hash)
       THEN jobs' = [jobs EXCEPT ![r] =
                        settled([@ EXCEPT !.pc = "returned", !.source = "cache",
                                          !.lookupTime = clock,
                                          !.text = MemValue(memoryCache, jobs[r].hash).text])]
       ELSE jobs' = [jobs EXCEPT ![r] = [@ EXCEPT !.pc = "storage"]]
    /\ UNCHANGED <<clock, storage, served, received, witAiToken>>

\* 3. CacheService.get after chrome.storage.local.get: a fresh entry is
\* copied to the memory tier and returned, an expired one is removed.
CacheGetStorage(r) ==
    /\ WorkerOnly
    /\ jobs[r].pc = "storage"
    /\ LET entry == storage[jobs[r].hash] IN
       IF entry # NoEntry /\ isFresh(clock - entry.timestamp)
       THEN /\ memoryCache' = MemoryCacheSet(memoryCache, jobs[r].hash, entry)
            /\ jobs' = [jobs EXCEPT ![r] =
                            settled([@ EXCEPT !.pc = "returned", !.source = "cache",
                                              !.lookupTime = clock, !.text = entry.text])]
            /\ UNCHANGED storage
       ELSE /\ storage' = [storage EXCEPT ![jobs[r].hash] = NoEntry]
            /\ jobs' = [jobs EXCEPT ![r] =
                            [@ EXCEPT !.pc = "transcribe", !.lookupTime = clock, !.attempt = 1]]
            /\ UNCHANGED memoryCache
    /\ UNCHANGED <<clock, served, received, witAiToken>>

\* 4-6. A call of WitClient.transcribe to the speech API ends.  If it
\* failed, the loop sleeps delay(attempt) and calls again while
\* attempt < maxRetries, and throws after that.  If it gave a text, the text
\* is returned, normalized and, unless empty, written to both tiers.
\* attempt counts the calls.
Transcribed(r) ==
    /\ WorkerOnly
    /\ jobs[r].pc = "transcribe"
    /\ \/ \E failure \in WitFailures :
            /\ IF mayRetry(jobs[r].attempt)
               THEN jobs' = [jobs EXCEPT ![r] =
                                [@ EXCEPT !.attempt = @ + 1, !.reply = failure,
                                          !.waits = Append(@, delay(jobs[r].attempt))]]
               ELSE jobs' = [jobs EXCEPT ![r] =
                                settled([@ EXCEPT !.pc = "failed", !.source = "api",
                                                  !.reply = failure,
                                                  !.error = "transcription"])]
            /\ UNCHANGED <<memoryCache, storage, served>>
       \/ \E rawText \in RawTexts :
            LET finalText == Normalized[rawText]
                entry == [text |-> finalText, timestamp |-> clock]
            IN
            IF Len(finalText) = 0
            THEN /\ jobs' = [jobs EXCEPT ![r] =
                                settled([@ EXCEPT !.pc = "failed", !.source = "api",
                                                  !.reply = "text",
                                                  !.error = "normalization"])]
                 /\ UNCHANGED <<memoryCache, storage, served>>
            ELSE /\ memoryCache' = MemoryCacheSet(memoryCache, jobs[r].hash, entry)
                 /\ storage' = [storage EXCEPT ![jobs[r].hash] = entry]
                 /\ served' = [served EXCEPT ![jobs[r].bytes] = entry]
                 /\ jobs' = [jobs EXCEPT ![r] =
                                settled([@ EXCEPT !.pc = "returned", !.source = "api",
                                                  !.reply = "text", !.text = finalText])]
    /\ UNCHANGED <<clock, received, witAiToken>>

\* The cleanupCache alarm: CacheService.clearExpired.
clearExpired ==
    /\ WorkerOnly
    /\ storage' = [h \in Hashes |->
            IF storage[h] # NoEntry /\ clock - storage[h].timestamp >= cacheExpiration
            THEN NoEntry ELSE storage[h]]
    /\ storage' # storage
    /\ UNCHANGED <<clock, memoryCache, jobs, served, received, witAiToken>>

\* processAudioPipeline called time after time, each call after the one
\* before it has ended
NextWorker ==
    \/ TimePasses \/ Restart \/ clearExpired
    \/ processAudioPipeline("tabA") \/ Downloaded("tabA")
    \/ CacheGetMemory("tabA") \/ CacheGetStorage("tabA") \/ Transcribed("tabA")

\* the two onMessage listeners under transcribe messages of every sender
NextListener ==
    \/ tokenSaved
    \/ \E r \in Senders :
        \/ onMessage(r) \/ legacySettings(r) \/ transcribeAudioReturns(r) \/ settingsRead(r)
        \/ Downloaded(r) \/ CacheGetMemory(r) \/ CacheGetStorage(r) \/ Transcribed(r)
(***************************************************************************)
(* sendMessageWithTimeout(message, timeout) of extension/content.js: the  *)
(* promise it returns, the timer it arms and the callback it hands to     *)
(* chrome.runtime.sendMessage.  Time is counted in ms since the call.     *)
(* A timer fires when it is due: time does not pass beyond the delay of   *)
(* an armed timer.  The callback may be called at any time, also after    *)
(* the timer has fired, or never.                                          *)
(***************************************************************************)
messageTimeout == 30000

\* ---- bounds of the exploration ----
\* calls of sendMessageWithTimeout explored one after another
MaxCalls == 2

Timeouts == {messageTimeout, 5000}
TimeSteps == {5000, 10000, 15000}

NoRequest ==
    [n |-> 0, timeout |-> 0, elapsed |-> 0, timer |-> FALSE,
     promise |-> "none", settledAt |-> 0, callback |-> "none"]

InitBridge == request = NoRequest

\* resolve / reject of a promise: only the first one settles it.
Settle(r, outcome) ==
    IF r.promise = "pending"
    THEN [r EXCEPT !.promise = outcome, !.settledAt = r.elapsed]
    ELSE r

\* (a callback that clears the timer and then forgets to reject)
callbackIgnoresError(r, lastError) ==
    IF lastError THEN [r EXCEPT !.timer = FALSE]
    ELSE Settle([r EXCEPT !.timer = FALSE], "resolved")

\* The callback given to chrome.runtime.sendMessage.
callback(r, lastError) ==
    IF lastError THEN Settle([r EXCEPT !.timer = FALSE], "rejected: runtime error")
    ELSE Settle([r EXCEPT !.timer = FALSE], "resolved")

\* The function given to setTimeout.
timerCallback(r) == Settle([r EXCEPT !.timer = FALSE], "rejected: timeout")

\* The call itself: arms the timer, then chrome.runtime.sendMessage either
\* takes the message or throws (the catch clears the timer and rejects).
sendMessageWithTimeout ==
    /\ BridgeOnly
    /\ request.promise # "pending" /\ ~request.timer
    /\ request.n < MaxCalls
    /\ \E timeout \in Timeouts, throws \in BOOLEAN :
            LET armed == [n |-> request.n + 1, timeout |-> timeout, elapsed |-> 0, timer |-> TRUE,
                          promise |-> "pending", settledAt |-> 0, callback |-> "waiting"]
            IN  request' = IF throws
                           THEN Settle([armed EXCEPT !.timer = FALSE, !.callback = "none"], "rejected: thrown")
                           ELSE armed

\* The privileged context answers (or the port closes: lastError is set).
CallbackCalled ==
    /\ BridgeOnly
    /\ request.callback = "waiting"
    /\ \E lastError \in BOOLEAN :
            request' = [callback(request, lastError) EXCEPT !.callback = "called"]

TimerFires ==
    /\ BridgeOnly
    /\ request.timer /\ request.elapsed >= request.timeout
    /\ request' = timerCallback(request)

MessageTimePasses ==
    /\ BridgeOnly
    /\ request.promise # "none"
    /\ request.elapsed <= request.timeout
    /\ ~(request.timer /\ request.elapsed >= request.timeout)
    /\ \E d \in TimeSteps :
            request' = [request EXCEPT !.elapsed =
                            IF request.timer /\ @ + d > request.timeout
                            THEN request.timeout ELSE @ + d]

NextBridge ==
    \/ sendMessageWithTimeout
    \/ CallbackCalled
    \/ TimerFires
    \/ MessageTimePasses

(***************************************************************************)
(* TranslationService.normalize called on the transcripts of one or two   *)
(* words of Vocabulary, and on "8 - 5".                                    *)
(***************************************************************************)
Vocabulary ==
    {<<"e", "i", "g", "h", "t">>, <<"f", "i", "v", "e">>,
     <<"a", "c", "h", "t">>, <<"f", "ü", "n", "f">>,
     <<"c", "i", "n", "q">>, <<"o", "c", "h", "o">>,
     <<"E", "i", "g", "h", "t", ",">>, <<"t", "e", "n", ".">>,
     <<"8", "5">>, <<"8">>, <<"-">>,
     <<"h", "e", "l", "l", "o">>, <<"c", "o", "n", "s", "t", "r", "u", "c", "t", "o", "r">>}

EightMinusFive == <<"8", " ", "-", " ", "5">>

Transcripts ==
    Vocabulary \cup {a \o <<" ">> \o b : a \in Vocabulary, b \in Vocabulary} \cup {EightMinusFive}

NoTranslation == [called |-> FALSE, text |-> <<>>, result |-> <<>>]

InitTranslator == translation = NoTranslation

\* const finalText = TranslationService.normalize(rawText)
normalizeCalled ==
    /\ TranslatorOnly
    /\ ~translation.called
    /\ \E text \in Transcripts :
            translation' = [called |-> TRUE, text |-> text, result |-> normalize(text)]

\* the caller is done with the result
normalizeReturned ==
    /\ TranslatorOnly
    /\ translation.called
    /\ translation' = NoTranslation

NextTranslator == normalizeCalled \/ normalizeReturned

(***************************************************************************)
(* TurnstileSolver.findTarget and findInShadow.  A root (a document, a   *)
(* shadow root) is the sequence of its elements in document order.  An    *)
(* element has a kind: "checkbox" (an input of type checkbox), "text" (a  *)
(* span of class cb-lb-t), "label", "host" (a div whose shadowRoot is     *)
(* root) or "iframe" (whose document is root, readable when origin is     *)
(* "same"), and the display, visibility and opacity of its computed style. *)
(***************************************************************************)
selectors ==
    <<"#SoGDz7 > div > label > input[type=checkbox]", "#SoGDz7 input[type=checkbox]",
      ".cb-lb-t", "input[type=checkbox]", ".ctp-checkbox-label", "label.ctp-checkbox-label",
      "div > label > input[type=checkbox]", "label > input[type=checkbox]",
      ".ctp-checkbox-container", "label", "input">>

\* el.matches(sel): the checkboxes of the model have no id and no label
\* around them, the labels no class
Matches(el, sel) ==
    \/ el.kind = "checkbox" /\ sel \in {"input[type=checkbox]", "input"}
    \/ el.kind = "text" /\ sel = ".cb-lb-t"
    \/ el.kind = "label" /\ sel = "label"

Null == "null"
SecurityError == "SecurityError"

\* root.querySelector(sel): the position of the first match in root, or 0
querySelector(root, sel) ==
    LET hits == {i \in 1..Len(root) : Matches(root[i], sel)} IN
    IF hits = {} THEN 0 ELSE CHOOSE i \in hits : \A k \in hits : i <= k

\* (a visibility test that does not look at the opacity)
isVisibleWhateverOpacity(el) == el.display # "none" /\ el.visibility # "hidden"

\* isVisible(el), on the computed style of el
isVisible(el) == el.display # "none" /\ el.visibility # "hidden" /\ el.opacity # "0"

\* for (const sel of selectors) { const el = root.querySelector(sel);
\*                                if (el && this.isVisible(el)) return el; }
firstVisible(root) ==
    LET found(k) == querySelector(root, selectors[k])
        hits == {k \in 1..Len(selectors) : found(k) # 0 /\ isVisible(root[found(k)])}
    IN IF hits = {} THEN Null
       ELSE root[found(CHOOSE k \in hits : \A h \in hits : k <= h)].id

RECURSIVE findInShadow(_)
findInShadow(root) ==
    LET under(i) == IF firstVisible(root[i].root) # Null THEN firstVisible(root[i].root)
                    ELSE findInShadow(root[i].root)
        hits == {i \in 1..Len(root) : root[i].kind = "host" /\ under(i) # Null}
    IN IF hits = {} THEN Null ELSE under(CHOOSE i \in hits : \A k \in hits : i <= k)

\* the body of the try block for one nested iframe: what it returns, Null
\* when it finds nothing, SecurityError when reading the document throws
inIframe(iframe) ==
    IF iframe.origin # "same" THEN SecurityError
    ELSE IF firstVisible(iframe.root) # Null THEN firstVisible(iframe.root)
    ELSE findInShadow(iframe.root)

\* catch (e) { }: the loop goes on to the next iframe
afterCatch(outcome) == IF outcome = SecurityError THEN Null ELSE outcome

findTarget(document) ==
    IF firstVisible(document) # Null THEN firstVisible(document)
    ELSE IF findInShadow(document) # Null THEN findInShadow(document)
    ELSE LET outcome(i) == afterCatch(inIframe(document[i]))
             hits == {i \in 1..Len(document) : document[i].kind = "iframe" /\ outcome(i) # Null}
         IN IF hits = {} THEN Null ELSE outcome(CHOOSE i \in hits : \A k \in hits : i <= k)

\* ---- the documents explored ----
Shown == [display |-> "block", visibility |-> "visible", opacity |-> "1"]
Styled(kind, id, style) ==
    [kind |-> kind, id |-> id, display |-> style.display, visibility |-> style.visibility,
     opacity |-> style.opacity, origin |-> "same", root |-> <<>>]
Checkbox(id, style) == Styled("checkbox", id, style)
Host(root) == [Styled("host", "host", Shown) EXCEPT !.root = root]
Iframe(origin, root) == [Styled("iframe", "iframe", Shown) EXCEPT !.origin = origin, !.root = root]

\* roots of at most one element, and of at most two
UpToOne(elements) == {<<>>} \cup {<<el>> : el \in elements}
UpToTwo(elements) == UpToOne(elements) \cup {<<a, b>> : a \in elements, b \in elements}

\* two rendered checkboxes, a rendered span.cb-lb-t and a rendered label, and
\* three checkboxes that are not rendered
Checkboxes ==
    {Checkbox("a", Shown), Checkbox("b", Shown),
     Styled("text", "text", Shown), Styled("label", "label", Shown),
     Checkbox("undisplayed", [Shown EXCEPT !.display = "none"]),
     Checkbox("hidden", [Shown EXCEPT !.visibility = "hidden"]),
     Checkbox("transparent", [Shown EXCEPT !.opacity = "0"])}
\* elements with shadow roots one level deep, and what shows them
Nested1 == Checkboxes \cup {Host(r) : r \in UpToTwo(Checkboxes)}
\* elements with shadow roots two levels deep, and iframes of both origins
Nested2 ==
    Checkboxes \cup {Host(r) : r \in UpToOne(Nested1)}
               \cup {Iframe(o, r) : o \in {"same", "cross"}, r \in UpToOne(Nested1)}
\* documents of up to two elements
Documents == UpToTwo(Nested2)

NoSearch == [called |-> FALSE, document |-> <<>>, result |-> Null]

InitLocator == search = NoSearch

\* const target = this.findTarget()
findTargetCalled ==
    /\ LocatorOnly
    /\ ~search.called
    /\ \E document \in Documents :
            search' = [called |-> TRUE, document |-> document, result |-> findTarget(document)]

\* solve() goes on with the target
findTargetReturned ==
    /\ LocatorOnly
    /\ search.called
    /\ search' = NoSearch

NextLocator == findTargetCalled \/ findTargetReturned
(***************************************************************************)
(* WitClient.parseResponse.  data is the sequence of the lines of         *)
(* data.trim().split, each by what JSON.parse makes of it:                 *)
(*   blank    nothing is left of the line after trim()                     *)
(*   json     an object; text is its text (empty when it has none or an    *)
(*            empty one), final whether its is_final is true               *)
(*   null     the JSON value null: reading its text throws                 *)
(*   broken   JSON.parse throws; text is what the regular expression of    *)
(*            the catch block captures in the line (empty when it does     *)
(*            not match or captures nothing)                               *)
(***************************************************************************)
Lines ==
    [kind : {"json"}, text : {"", "a", "b"}, final : BOOLEAN]
    \cup [kind : {"broken"}, text : {"", "b"}, final : {FALSE}]
    \cup [kind : {"blank", "null"}, text : {""}, final : {FALSE}]

\* ---- bounds of the exploration ----
\* lines of a response
MaxLines == 3

RECURSIVE Responses(_)
Responses(n) ==
    IF n = 0 THEN {<<>>}
    ELSE Responses(n - 1) \cup {Append(d, l) : d \in {r \in Responses(n - 1) : Len(r) = n - 1}, l \in Lines}

\* (a parser that never sees a final chunk)
isFinalNever(json) == FALSE

\* json.is_final === true
isFinal(json) == json.final

\* The for loop from line i down to the first, with bestCandidate; the value
\* of finalText || bestCandidate when it ends.
RECURSIVE scan(_, _, _)
scan(lines, i, bestCandidate) ==
    IF i = 0 THEN bestCandidate
    ELSE LET line == lines[i] IN
         IF line.kind = "blank" THEN scan(lines, i - 1, bestCandidate)
         ELSE IF line.kind = "json"
              THEN IF line.text # ""
                   THEN IF isFinal(line) THEN line.text                \* finalText; break
                        ELSE scan(lines, i - 1, IF bestCandidate = Null THEN line.text ELSE bestCandidate)
                   ELSE scan(lines, i - 1, bestCandidate)
         \* catch (e): the regular expression
         ELSE IF line.text # "" /\ bestCandidate = Null
              THEN scan(lines, i - 1, line.text)
              ELSE scan(lines, i - 1, bestCandidate)

parseResponse(data) == IF Len(data) = 0 THEN Null ELSE scan(data, Len(data), Null)

NoParsing == [called |-> FALSE, data |-> <<>>, result |-> Null]

InitParser == parsing = NoParsing

\* const result = this.parseResponse(rawText)
parseResponseCalled ==
    /\ ParserOnly
    /\ ~parsing.called
    /\ \E data \in Responses(MaxLines) :
            parsing' = [called |-> TRUE, data |-> data, result |-> parseResponse(data)]

\* transcribe goes on with the result
parseResponseReturned ==
    /\ ParserOnly
    /\ parsing.called
    /\ parsing' = NoParsing

NextParser == parseResponseCalled \/ parseResponseReturned
(***************************************************************************)
(* A MemoryCache on its own: new MemoryCache(maxSize), then calls of get  *)
(* and set.  lru.lastUse[key] is the number of the last call that used    *)
(* key (a get that found it, or a set), 0 when the cache does not hold it. *)
(***************************************************************************)
\* ---- bounds of the exploration ----
\* the largest maxSize a cache is constructed with
MaxCapacity == 2
\* calls of get and set
MaxUses == 5

CacheKeys == {"k1", "k2", "k3"}
CacheValues == {"x", "y"}

MemKeys(m) == {m[i].key : i \in 1..Len(m)}

NoLru == [maxSize |-> 0, cache |-> <<>>, calls |-> 0,
          lastUse |-> [k \in CacheKeys |-> 0], call |-> "none", key |-> "none"]

InitCache == lru = NoLru

\* new MemoryCache(maxSize)
InitMemoryCache == \E maxSize \in 1..MaxCapacity : lru = [NoLru EXCEPT !.maxSize = maxSize]

\* lastUse after a call that used key and left the Map m
Used(key, m) ==
    [k \in CacheKeys |-> IF k = key THEN lru.calls + 1
                         ELSE IF k \in MemKeys(m) THEN lru.lastUse[k] ELSE 0]

\* cache.get(key)
cacheGet ==
    /\ CacheOnly
    /\ lru.calls < MaxUses
    /\ \E key \in CacheKeys :
        LET m == MemoryCacheGet(lru.cache, key) IN
        lru' = [lru EXCEPT !.cache = m, !.calls = @ + 1, !.call = "get", !.key = key,
                           !.lastUse = IF MemHas(lru.cache, key) THEN Used(key, m) ELSE @]

\* cache.set(key, value)
cacheSet ==
    /\ CacheOnly
    /\ lru.calls < MaxUses
    /\ \E key \in CacheKeys, value \in CacheValues :
        LET m == MemorySet(lru.cache, lru.maxSize, key, value) IN
        lru' = [lru EXCEPT !.cache = m, !.calls = @ + 1, !.call = "set", !.key = key,
                           !.lastUse = Used(key, m)]

NextCache == cacheGet \/ cacheSet
(***************************************************************************)
(* src/TurnstileSolver.js (the Node solver): TurnstileSolver.detect on a  *)
(* Playwright page.  A page is what the locators of detect find on it     *)
(* during the call.                                                        *)
(***************************************************************************)
\* recaptchaFrame   iframe[src*="recaptcha"], iframe[src*="google.com/recaptcha"]
\* recaptchaBorder  .recaptcha-checkbox-border
\* recaptchaAnchor  #recaptcha-anchor
\* turnstileFrame   findTurnstileFrame() returns a frame
\* cfWidget         .cf-turnstile, [class*="cf-turnstile"]
\* turnstileIframe  iframe[src*="challenges.cloudflare.com"], iframe[src*="turnstile"]
\* sitekey          the data-sitekey of the first [data-sitekey]: none, empty, or a key
\* closed           the page is closed: every locator call rejects
NodePages ==
    [recaptchaFrame : BOOLEAN, recaptchaBorder : BOOLEAN, recaptchaAnchor : BOOLEAN,
     turnstileFrame : BOOLEAN, cfWidget : BOOLEAN, turnstileIframe : BOOLEAN,
     sitekey : {"none", "empty", "key"}, closed : BOOLEAN]

\* (a first test that looks for the frame only)
isRecaptchaFrameOnly(p) == p.recaptchaFrame

\* the two tests detect starts with: a reCAPTCHA frame, or its checkbox
isRecaptcha(p) == p.recaptchaFrame \/ p.recaptchaBorder \/ p.recaptchaAnchor

detect(p) ==
    IF p.closed THEN FALSE                          \* catch (error)
    ELSE IF isRecaptcha(p) THEN FALSE
    ELSE IF p.turnstileFrame THEN TRUE
    ELSE IF p.cfWidget THEN TRUE
    ELSE IF p.turnstileIframe THEN TRUE
    ELSE IF p.sitekey = "key"
         THEN ~(p.recaptchaFrame \/ p.recaptchaBorder)
    ELSE FALSE

NoDetection ==
    [called |-> FALSE,
     page |-> [recaptchaFrame |-> FALSE, recaptchaBorder |-> FALSE, recaptchaAnchor |-> FALSE,
               turnstileFrame |-> FALSE, cfWidget |-> FALSE, turnstileIframe |-> FALSE,
               sitekey |-> "none", closed |-> FALSE],
     result |-> FALSE]

InitNode == detection = NoDetection

\* const isTurnstile = await this.turnstileSolver.detect()
detectCalled ==
    /\ NodeOnly
    /\ ~detection.called
    /\ \E p \in NodePages : detection' = [called |-> TRUE, page |-> p, result |-> detect(p)]

\* the caller is done with the result
detectReturned ==
    /\ NodeOnly
    /\ detection.called
    /\ detection' = NoDetection

NextNode == detectCalled \/ detectReturned
(***************************************************************************)
(* TurnstileSolver.clickTarget and executeBlindClick, as solve() awaits   *)
(* them.  A target is what findTarget returned: whether it is an input of *)
(* type checkbox, whether it is checked, whether closest finds a label    *)
(* and a div around it, and which interactions flip its checked state.    *)
(***************************************************************************)
Interactions == {"events", "click", "label", "container"}

Targets ==
    [checkbox : BOOLEAN, checked : BOOLEAN, label : BOOLEAN, container : BOOLEAN,
     flips : SUBSET Interactions]

\* element.checked after the interaction what, when it was checked before
after(t, what, checked) == IF what \in t.flips THEN ~checked ELSE checked

\* (fallbacks with the label before the native click)
fallbacksLabelFirst == <<"label", "click", "container">>

\* Fallback A, B, C of clickTarget in the order of the code
fallbacks == <<"click", "label", "container">>

\* element.closest('label'), element.closest('div'); the element itself for
\* the native click
reaches(t, what) ==
    IF what = "label" THEN t.label ELSE IF what = "container" THEN t.container ELSE TRUE

\* clickTarget from fallback number k on, with element.checked as it is and
\* the interactions done so far: each fallback that has its element is
\* done, and if (element.checked) return follows all but the last
RECURSIVE escalate(_, _, _, _)
escalate(t, k, checked, done) ==
    IF k > Len(fallbacks) THEN [done |-> done, checked |-> checked]
    ELSE IF ~reaches(t, fallbacks[k]) THEN escalate(t, k + 1, checked, done)
    ELSE LET now == after(t, fallbacks[k], checked)
             acts == Append(done, fallbacks[k])
         IN IF k < Len(fallbacks) /\ now THEN [done |-> acts, checked |-> now]
            ELSE escalate(t, k + 1, now, acts)

\* clickTarget(element): the interactions done, and element.checked at the end
clickTarget(t) ==
    LET now == after(t, "events", t.checked) IN
    IF ~t.checkbox THEN [done |-> <<"events">>, checked |-> now]
    ELSE IF now THEN [done |-> <<"events">>, checked |-> now]
    ELSE escalate(t, 1, now, <<"events">>)

\* ---- executeBlindClick ----
coords == <<"Checkbox Area", "Center">>

\* what can fail at a point: el.focus, or el.dispatchEvent of one of the
\* seven events
NoFailure == [point |-> 0, call |-> "none"]
Failures ==
    {NoFailure} \cup {[point |-> p, call |-> c] : p \in 1..Len(coords), c \in {"focus", "dispatchEvent"}}

\* executeBlindClick(): the points clicked, and whether it threw; nothing in
\* it catches, so a failure ends the loop
executeBlindClick(failure) ==
    IF failure = NoFailure THEN [done |-> coords, raised |-> FALSE]
    ELSE [done |-> SubSeq(coords, 1, failure.point - 1), raised |-> TRUE]

\* await in solve() and in check(): what the awaited call throws is thrown
\* on, neither has a try block
rethrown(raised) == raised

NoStrike ==
    [called |-> FALSE, strategy |-> "none", target |-> [checkbox |-> FALSE, checked |-> FALSE,
     label |-> FALSE, container |-> FALSE, flips |-> {}], failure |-> NoFailure, done |-> <<>>,
     checked |-> FALSE, attempts |-> 0, solved |-> FALSE, check |-> "none"]

InitStrike == strike = NoStrike

\* check() calls solve() with no success signal in the frame: attempts++,
\* findTarget() gives an element and clickTarget is awaited, then
\* markSolved(); check() returns
solveClicks ==
    /\ StrikeOnly
    /\ ~strike.called
    /\ \E t \in Targets :
        LET r == clickTarget(t) IN
        strike' = [NoStrike EXCEPT !.called = TRUE, !.strategy = "click", !.target = t,
                                   !.done = r.done, !.checked = r.checked,
                                   !.attempts = 1, !.solved = TRUE, !.check = "returned"]

\* check() calls solve() with no success signal in the frame: attempts++,
\* findTarget() gives null and executeBlindClick is awaited; check()
\* returns, or its promise is rejected with what the blind click threw
solveClicksBlindly ==
    /\ StrikeOnly
    /\ ~strike.called
    /\ \E failure \in Failures :
        LET r == executeBlindClick(failure) IN
        strike' = [NoStrike EXCEPT !.called = TRUE, !.strategy = "blind", !.failure = failure,
                                   !.done = r.done, !.attempts = 1,
                                   !.check = IF rethrown(r.raised) THEN "rejected" ELSE "returned"]

\* the next poll
solveEnded ==
    /\ StrikeOnly
    /\ strike.called
    /\ strike' = NoStrike

NextStrike == solveClicks \/ solveClicksBlindly \/ solveEnded
(***************************************************************************)
(* Specifications.  The variables of the scripts that do not run stay at  *)
(* their initial values.                                                   *)
(***************************************************************************)
IdleTurnstile == InitTurnstile /\ win = [width |-> 0, height |-> 0, href |-> HrefWidget, bodyText |-> TextVerify, hasContent |-> FALSE]
IdlePage == InitPage /\ dom = NoDom
IdleWorker == InitWorker
IdleBridge == InitBridge
IdleTranslator == InitTranslator
IdleParser == InitParser
IdleCache == InitCache
IdleLocator == InitLocator
IdleNode == InitNode
IdleStrike == InitStrike

\* the scripts other than s never run
Others(s) ==
    /\ IF s = "frame" THEN TRUE ELSE IdleTurnstile
    /\ IF s = "page" THEN TRUE ELSE IdlePage
    /\ IF s = "worker" THEN TRUE ELSE IdleWorker
    /\ IF s = "bridge" THEN TRUE ELSE IdleBridge
    /\ IF s = "translator" THEN TRUE ELSE IdleTranslator
    /\ IF s = "parser" THEN TRUE ELSE IdleParser
    /\ IF s = "cache" THEN TRUE ELSE IdleCache
    /\ IF s = "locator" THEN TRUE ELSE IdleLocator
    /\ IF s = "node" THEN TRUE ELSE IdleNode
    /\ IF s = "strike" THEN TRUE ELSE IdleStrike

\* extension/content.js in one page context
InitContent == script = "page" /\ InitPage /\ Others("page")
SpecPage == InitContent /\ [][NextPage]_vars

\* setInterval(solveLoop, checkInterval) keeps firing, and every await of a
\* suspended call settles: the sleeps end, and sendMessageWithTimeout is
\* settled by the answer or by its own timer.
FairPage ==
    /\ WF_vars(Tick)
    /\ WF_vars(rc0_notifyReturns) /\ WF_vars(rc1_returns) /\ WF_vars(rc2_returns)
    /\ WF_vars(rc3_transcribeReturns) /\ WF_vars(rc3_answerReturns)
    /\ WF_vars(rc3_errorShown) /\ WF_vars(rc3_reloadReturns) /\ WF_vars(rc4_returns)
    /\ WF_vars(ts0_notifyReturns) /\ WF_vars(ts_checkResult) /\ WF_vars(ts1_notifyReturns)
SpecPageFair == SpecPage /\ FairPage

\* extension/content.js in one document (the anchor frame, the challenge
\* frame or a host page), with event kept
SameDocument == \E scenes \in {AnchorScenes, ChallengeScenes, HostScenes} : dom \in scenes /\ dom' \in scenes
InitFlows ==
    /\ script = "page" /\ InitState /\ event = NoEvent
    /\ Others("page")
NextFlows ==
    \/ Tick
    \/ DomChange /\ SameDocument
    \/ Resume
SpecFlows == InitFlows /\ [][NextFlows]_vars

\* Both solvers with their attempt counters explored to the maximum; the
\* frame of the Turnstile solver ranges over SceneWindows.
SceneWindows ==
    {w \in Windows : /\ w.width \in {0, 300} /\ w.height = 65
                     /\ w.href \in {HrefWidget, HrefFailure} /\ w.bodyText = TextVerify}

InScene == win' \in SceneWindows

InitSolvers ==
    \/ InitContent
    \/ script = "frame" /\ InitTurnstile /\ win \in SceneWindows /\ Others("frame")
NextSolvers ==
    \/ NextPage
    \/ FrameChanges /\ InScene
    \/ check
    \/ clickTargetReturns
    \/ executeBlindClickReturns
SpecSolvers == InitSolvers /\ [][NextSolvers]_vars

\* extension/background.js: processAudioPipeline runs one after another
InitPipeline == script = "worker" /\ InitWorker /\ Others("worker")
SpecPipeline == InitPipeline /\ [][NextWorker]_vars
SpecListener == InitPipeline /\ [][NextListener]_vars


\* sendMessageWithTimeout: calls made one after another
InitMessages == script = "bridge" /\ InitBridge /\ Others("bridge")
SpecMessages == InitMessages /\ [][NextBridge]_vars

\* TranslationService.normalize on the transcripts of Transcripts
InitNormalize == script = "translator" /\ InitTranslator /\ Others("translator")
SpecNormalize == InitNormalize /\ [][NextTranslator]_vars

\* Which challenge a run acts on: extension/content.js in one page context,
\* or detect of the Node solver on one page.
InitArbiter ==
    \/ InitContent
    \/ script = "node" /\ InitNode /\ Others("node")
NextArbiter == NextPage \/ NextNode
SpecArbiter == InitArbiter /\ [][NextArbiter]_vars

\* TurnstileSolver.findTarget on the documents of Documents
InitSearch == script = "locator" /\ InitLocator /\ Others("locator")
SpecLocator == InitSearch /\ [][NextLocator]_vars

\* a MemoryCache of maxSize 1..MaxCapacity under MaxUses calls
InitLru == script = "cache" /\ InitMemoryCache /\ Others("cache")
SpecMemoryCache == InitLru /\ [][NextCache]_vars

\* WitClient.parseResponse on the responses of up to MaxLines lines
InitParse == script = "parser" /\ InitParser /\ Others("parser")
SpecParser == InitParse /\ [][NextParser]_vars

\* solve() of the Turnstile frame solver on every target and every failure
InitClick == script = "strike" /\ InitStrike /\ Others("strike")
SpecClick == InitClick /\ [][NextStrike]_vars
\* The status classifier over every frame of Windows, explored up to
\* MaxProbeAttempts solve attempts.
InitStatus == script = "frame" /\ InitTurnstile /\ Others("frame")
Probed == attempts' <= MaxProbeAttempts
NextStatus ==
    \/ FrameChanges
    \/ check /\ Probed
    \/ clickTargetReturns
    \/ executeBlindClickReturns
SpecStatus == InitStatus /\ [][NextStatus]_vars

(***************************************************************************)
(* Claims about the transcription pipeline (under SpecPipeline).  In a    *)
(* state with job.pc "returned" or "failed" the last step ended a run;    *)
(* job.prior is the entry written by the last earlier run that got the    *)
(* same bytes transcribed by the speech API (NoEntry if there was none),  *)
(* job.source is "api" if the run called the speech API.                   *)
(***************************************************************************)
RunEnded == job.pc \in {"returned", "failed"}

C2_AttemptsWithinMaximum == solveAttempts <= 5 /\ attempts <= 30

C2_Witness ==
    \/ script = "page" /\ solveAttempts = 5 /\ InFlight = 0 /\ ~isSolving
    \/ script = "frame" /\ attempts = 30 /\ poll.status = "READY" /\ ~poll.solveCalled

(***************************************************************************)
(* Claims about the page orchestrator (under SpecPage).  A step that      *)
(* raises InFlight is a poll that started an interaction and suspended;   *)
(* a step that leaves flows unchanged and changes State is a poll that    *)
(* returned at once; a step that lowers flows[pc] resumes the call         *)
(* suspended at pc.                                                         *)
(***************************************************************************)
\* C3 as stated: at most one solveRecaptcha/solveTurnstile flow is between
\* its start and its end at any time: no poll starts an interaction while a
\* flow started by an earlier poll has not returned.
C3_OneFlowAtATime == InFlight <= 1

\* C4 as stated: in each continuous period during which the success
\* indicator is present, at most one notify request is sent.
C4_OneNotifyPerPeriod == notifiesInPeriod <= 1

\* C5 as stated: once State.solveAttempts has reached 5, no poll that
\* begins afterwards starts an interaction, whatever the document shows and
\* whatever flows were in flight.
C5_NoInteractionOnceLimitReached == [][limitReached => InFlight' <= InFlight]_vars

\* C5 amended: a poll that begins while State.solveAttempts is 5 starts no
\* interaction, whatever the document shows and whatever flows are in
\* flight.  (The counter does not stay at 5: State.reset() in a resumed flow
\* puts it back to 0 and later polls act again.)
C5_NoInteractionAtLimit == [][solveAttempts = 5 => InFlight' <= InFlight]_vars

C5_Witness ==
    /\ solveAttempts = 5 /\ ~isSolving /\ solveAge = 500
    /\ InFlight = 0 /\ dom = DomAnchor

\* C6 as stated: State.solveAttempts goes back to 0 only at a poll, and only
\* when no success indicator is in the document (one seen earlier has gone).
C6_ResetOnlyWhenSuccessGone ==
    [][(solveAttempts > 0 /\ solveAttempts' = 0) =>
            (flows' = flows /\ dom.checked # "visible" /\ dom.token # "long")]_vars

\* C6 amended: State.solveAttempts goes back to 0 only
\*  - at a poll of solveRecaptcha that sees the checked checkbox visible while
\*    hasNotified is already set,
\*  - when the notify request sent on seeing success is answered (step 0 of
\*    solveRecaptcha, or solveTurnstile after its click),
\*  - when solveTurnstile finds the token after its click with hasNotified set,
\*  - at a poll of solveRecaptcha that sees the error message visible and no
\*    reload button;
\* the disappearance of a success indicator resets nothing.
C6_ResetOnSuccessOrDeadEnd ==
    [][(solveAttempts > 0 /\ solveAttempts' = 0) =>
            \/ flows' = flows /\ dom.checked = "visible" /\ hasNotified
            \/ flows'["rc0_notify"] < flows["rc0_notify"] /\ hasNotified'
            \/ flows'["ts1_notify"] < flows["ts1_notify"] /\ hasNotified'
            \/ flows'["ts_click"] < flows["ts_click"] /\ dom.token = "long" /\ hasNotified
            \/ /\ flows' = flows /\ dom.checked # "visible"
               /\ dom.errorMsg = "visible" /\ ~dom.reloadBtn]_vars

C6_Witness == limitReached /\ solveAttempts = 0 /\ hasNotified /\ dom = DomTurnstileSolved

(***************************************************************************)
(* Claims about the status classifier (under SpecStatus).  In a state     *)
(* with poll.status # "NONE" the last step was a poll that called         *)
(* getFrameStatus on the frame win; poll.stabBefore and poll.runBefore    *)
(* are the counter and the run it started from.                            *)
(***************************************************************************)
Polled == poll.status # "NONE"

C9_ResetOnlyWhenStandard ==
    (Polled /\ poll.stabBefore > 0) =>
        (stabilizationAttempts = 0 <=> (win.width > 150 /\ win.height >= 50))

\* C9 amended: a poll sets the counter back to 0 exactly when the widget is
\* not small (width>=50 and height>=50) and the poll is not classified FATAL:
\* on every poll of standard geometry, on the polls of a widget 50 to 150
\* wide that shows no error URL/text, and on no poll of a small widget.
C9_ResetWhenNotSmall ==
    (Polled /\ poll.stabBefore > 0) =>
        (stabilizationAttempts = 0 <=>
            /\ win.width >= 50 /\ win.height >= 50
            /\ \/ win.width > 150
               \/ ~HrefSignalsFailure[win.href] /\ ~TextSignalsError[win.bodyText])

C9_Witness ==
    /\ Polled /\ poll.stabBefore > 0 /\ stabilizationAttempts = 0
    /\ win.width = 150 /\ win.height = 65

\* C10: whenever the geometry is standard (width>150 and height>=50) a poll
\* returns READY and leaves the counter 0, for every URL, body text and prior
\* counter; a widget 0x0 for 5 polls that then becomes 300x65 is WAITING five
\* times, then READY with the counter back to 0.
C10_StandardIsReady ==
    /\ (Polled /\ win.width > 150 /\ win.height >= 50) =>
            poll.status = "READY" /\ stabilizationAttempts = 0
    /\ (Polled /\ run \in 1..5) => poll.status = "WAITING"

C10_Witness ==
    /\ Polled /\ win.width = 300 /\ win.height = 65
    /\ poll.runBefore = 5 /\ poll.stabBefore = 5
    /\ poll.status = "READY" /\ stabilizationAttempts = 0
    /\ TextSignalsError[win.bodyText]

\* C11: for a widget whose geometry is not standard, a poll is classified
\* FATAL if and only if the URL contains '/failure', '/error' or 'error='
\* without containing 'failure_retry', or the body text matches
\* /Error|400 Bad Request|400070/i; a widget of standard geometry is never
\* classified FATAL.
C11_FatalIffFailureSignal ==
    Polled =>
        (poll.status = "FATAL" <=>
            /\ ~(win.width > 150 /\ win.height >= 50)
            /\ \/ /\ \/ Includes(win.href, SlashFailure)
                     \/ Includes(win.href, SlashError)
                     \/ Includes(win.href, ErrorEq)
                  /\ ~Includes(win.href, FailureRetry)
               \/ MatchesErrorText(win.bodyText))

C11_Witness ==
    /\ poll.status = "FATAL" /\ win.href = HrefFailureRetry
    /\ win.bodyText = TextError /\ win.width = 150 /\ win.height = 65

\* C12 as stated: a poll of a tiny widget (width<50 or height<50) that shows
\* no error URL/text and has a content indicator is classified READY and
\* leaves the stabilization counter at 0, whatever value the counter had.
C12_TinyWithContentResets ==
    (Polled /\ (win.width < 50 \/ win.height < 50) /\ win.hasContent
        /\ ~HrefSignalsFailure[win.href] /\ ~TextSignalsError[win.bodyText]) =>
        poll.status = "READY" /\ stabilizationAttempts = 0

\* C12 amended: a poll of a tiny widget (width<50 or height<50) that shows no
\* error URL/text and has a content indicator is classified READY and leaves
\* the stabilization counter at the value it had.
C12_TinyWithContentKeepsCounter ==
    (Polled /\ (win.width < 50 \/ win.height < 50) /\ win.hasContent
        /\ ~HrefSignalsFailure[win.href] /\ ~TextSignalsError[win.bodyText]) =>
        poll.status = "READY" /\ stabilizationAttempts = poll.stabBefore

C12_Witness ==
    /\ poll.status = "READY" /\ win.width = 0 /\ win.height = 0 /\ win.hasContent
    /\ poll.stabBefore = 7 /\ stabilizationAttempts = 7 /\ poll.solveCalled

\* C13 as stated: after a poll classified FATAL the solver makes no solve
\* attempt on this widget any more, whatever later polls observe.
\* (failureLogged is TRUE only from a poll classified FATAL on.)
C13_NoAttemptAfterFatal == [][failureLogged => attempts' = attempts]_vars

\* C13 amended: a poll makes no solve attempt (no target click, no blind
\* click) as long as the frame it observes has non-standard geometry and shows
\* a failure URL or error text; the classification is computed anew at every
\* poll, so that a poll after the failure signs are gone or the geometry has
\* become standard may attempt again.
C13_NoAttemptWhileFailureShown ==
    [][(/\ ~(win.width > 150 /\ win.height >= 50)
        /\ HrefSignalsFailure[win.href] \/ TextSignalsError[win.bodyText]
        /\ win' = win) =>
            /\ attempts' = attempts
            /\ inflight'.click <= inflight.click
            /\ inflight'.blind <= inflight.blind]_vars

C13_Witness ==
    /\ poll.status = "FATAL" /\ failureLogged /\ win.href = HrefErrorQuery
    /\ attempts = 1 /\ inflight.blind = 1

\* C14: a poll classified FATAL or WAITING starts no interaction and leaves
\* attempts, solved and active as they were; attempts grows, by one, only at
\* a poll classified READY.
C14_OnlyReadyPollsAct ==
    [][/\ poll'.status \in {"FATAL", "WAITING"} =>
            /\ attempts' = attempts /\ solved' = solved /\ active' = active
            /\ inflight' = inflight
       /\ attempts' # attempts => poll'.status = "READY" /\ attempts' = attempts + 1]_vars

C14_Witness ==
    /\ poll.status = "WAITING" /\ attempts = 1 /\ active /\ ~solved
    /\ inflight.click = 1 /\ poll.stabBefore = 3

C25_NotFoundFallsBack ==
    [][/\ (poll'.target = "null") =>
            /\ attempts' = attempts + 1
            /\ inflight'.blind = inflight.blind + 1 /\ inflight'.click = inflight.click
            /\ ~solved /\ ~solved'
       /\ (inflight'.blind < inflight.blind) =>
            attempts' = attempts /\ solved' = solved]_vars

C25_Witness ==
    /\ attempts = 1 /\ ~solved /\ inflight.blind = 0 /\ inflight.click = 0
    /\ poll = NoPoll /\ active /\ win.width = 300 /\ win.height = 65

(***************************************************************************)
(* Claims about the bridge (under SpecMessages).                           *)
(***************************************************************************)
\* C15: every call of sendMessageWithTimeout settles within its timeout
\* (30 s by default): once more time than the timeout has passed the promise
\* is not pending, and it was resolved with the response, rejected with the
\* runtime error, or rejected with the timeout error no later than the
\* timeout, whether the privileged context answers, answers late, or never.
C15_SettlesWithinTimeout ==
    /\ (request.promise = "pending") => request.elapsed <= request.timeout
    /\ (request.promise \notin {"none", "pending"}) =>
            /\ request.settledAt <= request.timeout
            /\ request.promise \in {"resolved", "rejected: runtime error",
                                    "rejected: timeout", "rejected: thrown"}
    /\ (request.promise = "rejected: timeout") => request.settledAt = request.timeout

C15_Witness ==
    /\ request.timeout = 30000 /\ request.promise = "rejected: timeout"
    /\ request.elapsed > 30000 /\ request.callback = "called" /\ request.n = 2

(***************************************************************************)
(* Claims about failures in the flows (under SpecFlows, which keeps in    *)
(* event what the last step met).                                          *)
(***************************************************************************)
\* C16: when the transcribe request of an audio flow fails for any reason
\* (bridge timeout, runtime error, no response, success=false, missing or
\* blank text) the flow goes to the catch of step 3 whatever the reason: it
\* types nothing and does not click verify; the flow counted one attempt when
\* it started and counts no other; after showing the error it clicks reload
\* if and only if the button exists and solveAttempts < 5; and it ends with
\* isSolving = false.
C16_TranscribeFailureReloads ==
    [][/\ flows'["rc3_transcribe"] > flows["rc3_transcribe"] =>
            solveAttempts' = solveAttempts + 1 /\ isSolving'
       /\ event'.reply \in {"timeout", "runtimeError", "undefined", "failure", "noText", "blankText"} =>
            /\ flows' = [flows EXCEPT !["rc3_transcribe"] = @ - 1, !["rc3_error"] = @ + 1]
            /\ event'.caught = "step 3" /\ event'.act = "none"
            /\ solveAttempts' = solveAttempts /\ isSolving' = isSolving
       /\ flows'["rc3_error"] < flows["rc3_error"] =>
            /\ solveAttempts' = solveAttempts
            /\ event'.act = (IF dom.reloadBtn /\ solveAttempts < 5 THEN "reload" ELSE "none")
            /\ event'.act = "reload" => flows'["rc3_reload"] = flows["rc3_reload"] + 1
            /\ event'.act = "none" => ~isSolving' /\ InFlight' = InFlight - 1
       /\ flows'["rc3_reload"] < flows["rc3_reload"] =>
            /\ solveAttempts' = solveAttempts /\ event'.act = "none"
            /\ ~isSolving' /\ InFlight' = InFlight - 1]_vars

C16_Witness ==
    /\ event.reply = "timeout" /\ event.caught = "step 3"
    /\ flows["rc3_error"] = 1 /\ flows["rc3_answer"] = 0
    /\ solveAttempts = 5 /\ isSolving /\ dom = DomAudio

\* C17: no error raised in a solve flow (a DOM exception, a rejected bridge
\* call, a failed transcription) leaves solveLoop: some catch block takes it
\* and the promise of the tick does not reject; when the catch of
\* solveLoop, solveRecaptcha or solveTurnstile has taken it, and when the
\* catch of step 3 is left, isSolving is false.
C17_ErrorsStayInside ==
    [][/\ event'.error # "none" => event'.caught # "none" /\ ~event'.rejected
       /\ (event'.error # "none" /\ event'.caught # "step 3") => ~isSolving'
       /\ (flows'["rc3_error"] + flows'["rc3_reload"] < flows["rc3_error"] + flows["rc3_reload"]) =>
            ~isSolving']_vars

C17_Witness ==
    /\ event.error = "ts: detect" /\ event.caught = "solveLoop" /\ ~event.rejected
    /\ ~isSolving /\ solveAttempts = 2 /\ dom = DomTurnstile

(***************************************************************************)
(* Further claims about the transcription pipeline (under SpecPipeline).  *)
(* job.byteLength is the size of the body the run downloaded (-1 before), *)
(* job.attempt the number of calls made to the speech API, job.reply what *)
(* the last of them gave, job.error why the run failed.                    *)
(***************************************************************************)
\* C18: a downloaded buffer is rejected exactly when it is empty or shorter
\* than 100 bytes, whatever its first bytes are; the run of a rejected buffer
\* fails in the step that validates it, before any hash, cache lookup, cache
\* write or speech-API call.
C18_RejectedBySizeOnly ==
    [][/\ job'.byteLength # -1 =>
            (job'.error = "validation" <=> (job'.byteLength = 0 \/ job'.byteLength < 100))
       /\ job'.error = "validation" =>
            /\ job'.pc = "failed" /\ job'.hash = <<>> /\ job'.lookupTime = 0
            /\ job'.attempt = 0 /\ job'.source = "none" /\ job'.text = <<>>
            /\ job.pc \in {"download", "failed"}
            /\ job' # job => UNCHANGED <<memoryCache, storage, served>>]_vars

C18_Witness ==
    /\ job.error = "validation" /\ job.bytes = "stub" /\ job.byteLength = 50
    /\ served["clipB"] # NoEntry /\ storage[<<"sha256", "clipB">>] # NoEntry

\* C19: WitClient.transcribe makes at most 3 calls to the speech API: a call
\* that gives a text ends the loop with no further call; a call that fails
\* (status not 2xx, network error, no text) is followed by another call only
\* if it was the first or the second; when the third fails the run fails with
\* the transcription error.
C19_AtMostThreeCalls ==
    [][/\ job'.attempt <= 3
       /\ (job.pc = "transcribe" /\ job' # job) =>
            /\ job'.reply = "text" =>
                    job'.attempt = job.attempt /\ job'.pc \in {"returned", "failed"}
            /\ job'.reply # "text" =>
                    /\ job'.reply \in {"non-2xx", "network error", "no text"}
                    /\ job.attempt < 3 => job'.pc = "transcribe" /\ job'.attempt = job.attempt + 1
                    /\ job.attempt >= 3 =>
                            /\ job'.pc = "failed" /\ job'.error = "transcription"
                            /\ job'.attempt = job.attempt]_vars

C19_Witness ==
    /\ job.pc = "failed" /\ job.error = "transcription"
    /\ job.attempt = 3 /\ job.reply = "network error"

(***************************************************************************)
(* Claims about TranslationService.normalize (under SpecNormalize).        *)
(***************************************************************************)
\* C20: normalize returns a pure-digit text unchanged; otherwise it
\* lower-cases the text, splits it on whitespace, strips the punctuation from
\* each token and replaces each token that is a digit word of one of the four
\* languages by its digits, independently of the other tokens; the result is
\* the tokens concatenated if every token has become digits, and the tokens
\* joined by single spaces otherwise.
C20_NormalizeAsDescribed ==
    translation.called =>
        LET text == translation.text
            tokens == SplitSpaces(Trim(ToLower(text)))
            Stripped(token) == SelectSeq(token, IsNotPunctuation)
            Replaced(token) ==
                IF \E p \in NumberWords : p[1] = Stripped(token)
                THEN (CHOOSE p \in NumberWords : p[1] = Stripped(token))[2]
                ELSE Stripped(token)
            replaced == [i \in 1..Len(tokens) |-> Replaced(tokens[i])]
        IN  translation.result =
                IF IsDigits(text) THEN text
                ELSE IF \A i \in 1..Len(replaced) : IsDigits(replaced[i])
                     THEN Join(replaced, <<>>)
                     ELSE Join(replaced, <<" ">>)

(***************************************************************************)
(* Claims about the choice of the challenge type (under SpecArbiter).      *)
(***************************************************************************)
\* the flows a tick has started in this step, by the solver they belong to
StartedRecaptcha ==
    \E pc \in {"rc0_notify", "rc1", "rc2", "rc3_transcribe", "rc4_reload"} : flows'[pc] > flows[pc]
StartedTurnstile ==
    \E pc \in {"ts0_notify", "ts_click"} : flows'[pc] > flows[pc]

\* C23: a tick of solveLoop acts on at most one challenge type, the
\* reCAPTCHA flow when indicators of both types are in the document: the
\* Turnstile flow starts only at a tick whose document shows no reCAPTCHA
\* indicator.  And detect of the Node solver returns false on every page
\* that shows a reCAPTCHA frame or checkbox, whatever else the page shows.
C23_RecaptchaFirst ==
    /\ [][/\ ~(StartedRecaptcha /\ StartedTurnstile)
          /\ StartedTurnstile => ~detectRecaptcha(dom) /\ detectTurnstile(dom)
          /\ StartedRecaptcha => detectRecaptcha(dom)]_vars
    /\ [](detection.called =>
            LET p == detection.page IN
            (p.recaptchaFrame \/ p.recaptchaBorder \/ p.recaptchaAnchor) => ~detection.result)

C23_Witness ==
    /\ script = "page" /\ dom = DomBothInline
    /\ flows["rc1"] = 1 /\ InFlight = 1 /\ isSolving /\ solveAttempts = 1 /\ solveAge = 0

(***************************************************************************)
(* Claims about findTarget (under SpecLocator).                            *)
(***************************************************************************)
\* the element is rendered: display not none, visibility not hidden,
\* opacity not 0
IsRendered(el) == el.display # "none" /\ el.visibility # "hidden" /\ el.opacity # "0"

\* how many rendered elements that match a selector lie under root, at any
\* depth, in shadow roots and in iframes; with cross FALSE, without those
\* inside iframes of another origin
RECURSIVE Rendered(_, _)
Rendered(root, cross) ==
    IF Len(root) = 0 THEN 0
    ELSE LET el == root[1] IN
         (IF el.kind \in {"checkbox", "text", "label"} THEN (IF IsRendered(el) THEN 1 ELSE 0)
          ELSE IF el.kind = "iframe" /\ el.origin # "same" /\ ~cross THEN 0
          ELSE Rendered(el.root, cross))
         + Rendered(Tail(root), cross)

\* C24: findTarget returns the target when the only rendered element that
\* matches lies in a shadow root inside a shadow root of the document
\* (whatever elements that are not rendered the tree holds); it returns
\* null, and raises nothing, when the only such element lies in an iframe of
\* another origin; and an iframe of another origin does not end the search: a
\* target in a readable iframe after it is returned.
C24_FindsDeepAndSkipsForeign ==
    search.called =>
        LET d == search.document IN
        /\ search.result # SecurityError
        /\ \A i \in 1..Len(d), k \in 1..2 :
            (/\ Rendered(d, TRUE) = 1
             /\ d[i].kind = "host" /\ Len(d[i].root) = 1 /\ d[i].root[1].kind = "host"
             /\ k <= Len(d[i].root[1].root) /\ IsRendered(d[i].root[1].root[k]))
                => search.result = d[i].root[1].root[k].id
        /\ (Rendered(d, TRUE) >= 1 /\ Rendered(d, FALSE) = 0) => search.result = Null
        /\ (/\ Len(d) = 2 /\ d[1].kind = "iframe" /\ d[1].origin = "cross"
            /\ d[2].kind = "iframe" /\ d[2].origin = "same"
            /\ Rendered(d[2].root, TRUE) = 1)
                => search.result # Null /\ search.result \in {"a", "b", "text", "label"}

(***************************************************************************)
(* Claims about MemoryCache (under SpecMemoryCache).                       *)
(***************************************************************************)
\* the keys a step removes from the Map
Evicted == MemKeys(lru.cache) \ MemKeys(lru'.cache)

\* C28: after any sequence of get and set calls the Map holds at most
\* maxSize entries, with no key twice; a call removes an entry only when it
\* is a set of a key the full Map does not hold, and then it removes exactly
\* the entry used least recently, where a get that finds a key and a set of
\* a key both use it.
C28_BoundedAndLeastRecentlyUsed ==
    /\ [](/\ Len(lru.cache) <= lru.maxSize
          /\ Cardinality(MemKeys(lru.cache)) = Len(lru.cache))
    /\ [][LET full == Len(lru.cache) = lru.maxSize
              new == lru'.key \notin MemKeys(lru.cache)
          IN
          IF lru'.call = "set" /\ new /\ full
          THEN /\ Cardinality(Evicted) = 1
               /\ \A k \in Evicted : \A j \in MemKeys(lru.cache) : lru.lastUse[k] <= lru.lastUse[j]
               /\ lru'.key \in MemKeys(lru'.cache)
          ELSE Evicted = {}]_vars

C28_Witness ==
    /\ lru.maxSize = 2 /\ lru.call = "set" /\ lru.key = "k3" /\ lru.calls = 4
    /\ MemKeys(lru.cache) = {"k1", "k3"} /\ lru.lastUse["k1"] = 3 /\ lru.lastUse["k2"] = 0

(***************************************************************************)
(* Claims about WitClient.parseResponse (under SpecParser).                *)
(***************************************************************************)
\* C29: if some chunk has a non-empty text and is marked final,
\* parseResponse returns the text of the last such chunk, even when chunks
\* after it carry text that is not final; otherwise it returns the text of
\* the last chunk that has a non-empty text; it returns null when no chunk
\* has a text.  (The text of a line that is not JSON is what the regular
\* expression captures; such a line carries no mark.)
C29_LastFinalElseLastText ==
    parsing.called =>
        LET d == parsing.data
            finals == {i \in 1..Len(d) : d[i].text # "" /\ d[i].final}
            texts == {i \in 1..Len(d) : d[i].text # ""}
            last(S) == CHOOSE i \in S : \A k \in S : k <= i
        IN parsing.result =
                IF finals # {} THEN d[last(finals)].text
                ELSE IF texts # {} THEN d[last(texts)].text
                ELSE Null

C29_Witness ==
    /\ parsing.called /\ parsing.result = "a" /\ Len(parsing.data) = 3
    /\ parsing.data[1] = [kind |-> "json", text |-> "a", final |-> TRUE]
    /\ parsing.data[2] = [kind |-> "json", text |-> "b", final |-> FALSE]
    /\ parsing.data[3] = [kind |-> "broken", text |-> "b", final |-> FALSE]


(***************************************************************************)
(* Claims about the retry loop of WitClient.transcribe (under             *)
(* SpecPipeline).  job.waits lists the delays the loop has slept in this   *)
(* run, job.attempt is the number of the call in progress or last ended.   *)
(***************************************************************************)
\* C30: in the retry loop, every failed call number k that is not the last
\* one, whatever the failure (a status that is not 2xx, a network error, a
\* response without text), is followed by a wait of retryDelay * k (1000 ms
\* after the first, 2000 ms after the second) before call k + 1; no wait
\* follows the final call, nor a call that gave a text.
C30_WaitGrowsWithAttempt ==
    /\ [][(job.pc = "transcribe" /\ job' # job) =>
            IF job'.reply \in {"non-2xx", "network error", "no text"} /\ job.attempt < 3
            THEN /\ job'.attempt = job.attempt + 1
                 /\ job'.waits = Append(job.waits, 1000 * job.attempt)
            ELSE /\ job'.waits = job.waits
                 /\ job'.pc \in {"returned", "failed"}]_vars
    /\ [](job.waits \in {<<>>, <<1000>>, <<1000, 2000>>})

C30_Witness ==
    /\ job.pc = "failed" /\ job.error = "transcription"
    /\ job.reply = "no text" /\ job.waits = <<1000, 2000>>


(***************************************************************************)
(* Claims about CacheService.get across time (under SpecPipeline).  A step *)
(* from job.pc "hash" is the memory tier of get answering or passing on to *)
(* the durable tier; a step from "storage" is the durable tier answering.  *)
(***************************************************************************)
\* C27: CacheService.get never returns a transcript whose entry is past the
\* 24-hour expiration, whichever tier serves it: a lookup of an entry created
\* 24 hours or more earlier is a miss, also when the entry is still held in
\* the memory tier, and the expired durable entry is purged.
C27_ExpiredIsMiss ==
    [][job' # job =>
        LET held == job.pc = "hash" /\ MemHas(memoryCache, job.hash)
            kept == job.pc = "storage" /\ storage[job.hash] # NoEntry
            expired(entry) == clock - entry.timestamp >= 1000 * 60 * 60 * 24
        IN  /\ (held /\ expired(MemValue(memoryCache, job.hash))) => job'.source # "cache"
            /\ (kept /\ expired(storage[job.hash])) =>
                    job'.source # "cache" /\ storage'[job.hash] = NoEntry]_vars


(***************************************************************************)
(* Claims about the onMessage listeners (under SpecListener).  For a      *)
(* sender r, jobs[r].pc = "settings" and jobs[r].legacy = "settings" are   *)
(* the two handlers of its request waiting for chrome.storage.sync.get;    *)
(* jobs[r].response is the response its channel delivered.                 *)
(***************************************************************************)
Caches == <<memoryCache, storage, served>>

\* C21: when the credential is absent, a transcribe request is answered with
\* success = false and an error, with no download, no call to the speech API
\* and no change to either cache tier; the failure affects that request
\* only: a request whose handlers find the credential stored is processed
\* normally, whatever was refused before it.
C21_RefusedWithoutToken ==
    /\ [][\A r \in {"tabA", "tabB"} :
            /\ (jobs[r].legacy = "settings" /\ jobs'[r].legacy # "settings") =>
                    IF witAiToken = ""
                    THEN /\ jobs'[r].legacy = "refused"
                         /\ jobs[r].open =>
                                /\ ~jobs'[r].open /\ ~jobs'[r].response.success
                                /\ jobs'[r].response.error # "none"
                         /\ UNCHANGED Caches
                         /\ \A q \in {"tabA", "tabB"} \ {r} : jobs'[q] = jobs[q]
                    ELSE jobs'[r].legacy = "transcribeAudio"
            /\ (jobs[r].pc = "settings" /\ jobs'[r].pc # "settings") =>
                    IF witAiToken = ""
                    THEN /\ jobs'[r].pc = "failed" /\ jobs'[r].error = "token"
                         /\ jobs[r].open =>
                                /\ ~jobs'[r].open /\ ~jobs'[r].response.success
                                /\ jobs'[r].response.error # "none"
                         /\ UNCHANGED Caches
                         /\ \A q \in {"tabA", "tabB"} \ {r} : jobs'[q] = jobs[q]
                    ELSE jobs'[r].pc = "download" /\ jobs'[r].error = "none"]_vars
    /\ [](\A r \in {"tabA", "tabB"} :
            (jobs[r].error = "token" /\ jobs[r].legacy = "refused") =>
                /\ jobs[r].pc = "failed" /\ ~jobs[r].open
                /\ ~jobs[r].response.success
                /\ jobs[r].response.error \in {"token", "Token missing"}
                /\ jobs[r].bytes = "none" /\ jobs[r].hash = <<>>
                /\ jobs[r].attempt = 0 /\ jobs[r].source = "none")

\* the first message was refused by both handlers; the second, of the other
\* sender, was processed after the credential was stored
C21_Witness ==
    /\ jobs["tabA"].n = 1 /\ jobs["tabA"].error = "token" /\ jobs["tabA"].legacy = "refused"
    /\ jobs["tabA"].response = [success |-> FALSE, error |-> "Token missing", by |-> "legacy"]
    /\ jobs["tabB"].n = 2 /\ jobs["tabB"].pc = "returned" /\ jobs["tabB"].source = "api"
    /\ jobs["tabB"].response = [success |-> TRUE, error |-> "none", by |-> "pipeline"]
    /\ Len(memoryCache) = 1


\* the second listener's handler for sender r is between the arrival of the
\* message and the end of its run
Busy(r) == jobs[r].pc \in {"settings", "download", "hash", "storage", "transcribe"}

\* C22: the service worker processes one transcribe request at a time: while
\* the request of one sender is between its start and its response, no step
\* of another request is a cache lookup (memory or durable tier), the end of
\* a call to the speech API or a cache write, so that neither cache tier is
\* changed by a request that overlaps another.
C22_OneRequestAtATime ==
    [][\A r \in {"tabA", "tabB"} : \A q \in {"tabA", "tabB"} \ {r} :
            Busy(q) =>
                /\ jobs'[r] # jobs[r] =>
                        /\ jobs[r].pc \notin {"hash", "storage", "transcribe"}
                        /\ jobs[r].legacy # "transcribeAudio"
                        /\ UNCHANGED <<memoryCache, storage>>]_vars


\* the positions of the rendered elements of root that match a selector
Hits(root) ==
    {i \in 1..Len(root) : root[i].kind \in {"checkbox", "text", "label"} /\ IsRendered(root[i])}

\* the rendered elements of root that match the earliest selector of the
\* list matched by any rendered element of root
Best(root) ==
    LET matched == {k \in 1..Len(selectors) : \E i \in Hits(root) : Matches(root[i], selectors[k])}
        first == CHOOSE k \in matched : \A h \in matched : k <= h
    IN {root[i].id : i \in {h \in Hits(root) : Matches(root[h], selectors[first])}}

\* the rendered elements that match a selector in the shadow roots reachable
\* from root, at any depth
RECURSIVE InShadow(_)
InShadow(root) ==
    UNION {LET inner == root[i].root IN
           {inner[h].id : h \in Hits(inner)} \cup InShadow(inner) :
                i \in {h \in 1..Len(root) : root[h].kind = "host"}}

\* C31: findTarget searches in tier order and the first match wins: when the
\* root document holds a rendered match, the result is the rendered match of
\* the earliest selector that has one there, whatever the shadow roots and
\* frames hold; when it holds none and a shadow root reachable from it holds
\* one, the result is a rendered match of a shadow root, whatever the frames
\* hold.
C31_TierOrder ==
    search.called =>
        LET d == search.document IN
        /\ Hits(d) # {} => search.result \in Best(d)
        /\ (Hits(d) = {} /\ InShadow(d) # {}) => search.result \in InShadow(d)

\* C32: every element findTarget returns, from the root document, a shadow
\* root or a nested frame, is rendered: its display is not none, its
\* visibility is not hidden and its opacity is not 0.
C32_ReturnedIsRendered ==
    (search.called /\ search.result # Null) =>
        \E el \in Checkboxes :
            /\ el.id = search.result
            /\ el.display # "none" /\ el.visibility # "hidden" /\ el.opacity # "0"

C32_Witness ==
    /\ search.called /\ search.result = "b" /\ Len(search.document) = 2
    /\ search.document[1].id = "transparent"
    /\ search.document[2].kind = "iframe" /\ Len(search.document[2].root) = 1
    /\ search.document[2].root[1].kind = "host"
    /\ Len(search.document[2].root[1].root) = 2
    /\ search.document[2].root[1].root[1].id = "b"
    /\ search.document[2].root[1].root[2].id = "undisplayed"

\* C33: findTarget returns null only if no rendered element that matches a
\* selector exists in the root document, in a shadow root reachable from it
\* or in a readable nested frame: whenever one exists (a visible checkbox
\* after a hidden one, say) an element is returned.
C33_NullOnlyIfNoneRendered ==
    (search.called /\ search.result = Null) => Rendered(search.document, FALSE) = 0


(***************************************************************************)
(* Claims about clickTarget and executeBlindClick (under SpecClick).       *)
(* strike.done lists the interactions of the call in their order.          *)
(***************************************************************************)
\* C34: for a checkbox that is not checked after the synthetic event
\* sequence, clickTarget tries the native click, then the nearest ancestor
\* label, then the nearest ancestor div, in this order, looks at the checked
\* state after each and does nothing more once the checkbox is checked; for
\* a target that is checked after the event sequence, or is not a checkbox,
\* it does no fallback.
C34_FallbacksInOrder ==
    (strike.called /\ strike.strategy = "click") =>
        LET t == strike.target
            flipped(what) == what \in t.flips
            checked1 == (t.checked # flipped("events"))
            last == IF t.container THEN <<"container">> ELSE <<>>
        IN
        IF ~t.checkbox \/ checked1 THEN strike.done = <<"events">>
        ELSE IF flipped("click") THEN strike.done = <<"events", "click">>
        ELSE IF t.label /\ flipped("label") THEN strike.done = <<"events", "click", "label">>
        ELSE IF t.label THEN strike.done = <<"events", "click", "label">> \o last
        ELSE strike.done = <<"events", "click">> \o last

C34_Witness ==
    /\ strike.called /\ strike.strategy = "click"
    /\ strike.target = [checkbox |-> TRUE, checked |-> FALSE, label |-> TRUE,
                        container |-> TRUE, flips |-> {"label", "container"}]
    /\ strike.done = <<"events", "click", "label">> /\ strike.checked

\* C35: the blind click never raises: when focusing or dispatching an event
\* at one of its coordinates fails, the failure stays inside the blind
\* click, check() returns normally, and the attempt is counted.
C35_BlindClickNeverRaises ==
    (strike.called /\ strike.strategy = "blind") =>
        /\ strike.check = "returned"
        /\ strike.attempts = 1


(***************************************************************************)
(* Claims about TurnstileSolver.solved (under SpecStatus).  A step to a   *)
(* poll with solveCalled and target "none" is a poll at which isSolved()   *)
(* found the success signal; a step that lowers inflight.click is          *)
(* clickTarget returning to solve().                                        *)
(***************************************************************************)
\* C36 as stated: solved becomes true only on a poll at which the success
\* signal of the widget is present; a click on a located target never sets
\* it.
C36_SolvedOnlyOnSuccessSignal ==
    [][(~solved /\ solved') => (poll'.solveCalled /\ poll'.target = "none")]_vars


\* C38: in every reachable state 0 <= stabilizationAttempts <= 20, whatever
\* sequence of geometry, URL, text and content observations the polls make.
\* Every poll classified WAITING adds one to the counter and the counter
\* goes down only at a poll classified READY, so getFrameStatus never
\* returns WAITING more than 20 times in a row.
C38_CounterBounded ==
    /\ [](stabilizationAttempts >= 0 /\ stabilizationAttempts <= 20)
    /\ [](poll.status = "WAITING" => stabilizationAttempts = poll.stabBefore + 1)
    /\ [][stabilizationAttempts' < stabilizationAttempts => poll'.status = "READY"]_vars
    /\ [][stabilizationAttempts' # stabilizationAttempts => poll'.status # "NONE"]_vars

C38_Witness ==
    /\ poll.status = "WAITING" /\ poll.stabBefore = 19 /\ stabilizationAttempts = 20
    /\ run = -1 /\ attempts = 1


\* C39: each transcribe request starts exactly one audio-processing run and
\* gets one response: while processAudioPipeline works on the request of a
\* sender, no second download and speech-API call (transcribeAudio) is under
\* way for the same request, and a success response always comes from
\* processAudioPipeline, whose text is the normalized transcript that the
\* cache stores, never from the handler that passes on the raw text.
C39_OneRunOneNormalizedResponse ==
    \A r \in Senders :
        /\ ~(jobs[r].legacy = "transcribeAudio" /\ jobs[r].pc \in {"download", "hash", "storage", "transcribe"})
        /\ jobs[r].response.success => jobs[r].response.by = "pipeline"


\* C40: normalize is idempotent on every transcript, not only on digit
\* strings: normalizing the result of normalize again gives the same text,
\* also when a token of the transcript consists only of punctuation (such
\* as "8 - 5").
C40_NormalizeIdempotent ==
    translation.called => normalize(translation.result) = translation.result


(***************************************************************************)
(* Claim about the success notification (under SpecPageFair).              *)
(* notifiesInPeriod counts the notify requests sent since the success      *)
(* indicator that is in the document appeared.                             *)
(***************************************************************************)
\* C37: if the checked reCAPTCHA checkbox becomes visible and stays visible
\* while the polls keep firing and every request is answered, a notify
\* request is eventually sent, whatever State.solveAttempts is at that
\* moment (also when it has reached the maximum).  Stated for a success
\* that no earlier notification is recorded or pending for (hasNotified
\* false, no call suspended).
C37_SuccessIsNotified ==
    (isCheckedVisible(dom) /\ notifiesInPeriod = 0 /\ ~hasNotified /\ InFlight = 0)
        ~> (notifiesInPeriod >= 1 \/ ~isCheckedVisible(dom))

====
